---- MODULE Spec2Model ----
(***************************************************************************)
(* Model of the api_proxy core of voltcode: model routing, the request    *)
(* dispatch of the HTTP frontend, and the streaming producers that turn   *)
(* an upstream SSE stream into Anthropic stream events sent over a        *)
(* bounded channel to the HTTP response.                                   *)
(***************************************************************************)
EXTENDS Integers, Sequences, FiniteSets, TLC

(***************************************************************************)
(* Bounds of the model.                                                    *)
(***************************************************************************)
\* number of upstream SSE frames one streamed response can carry
MaxFrames == 3
\* the same, in the dispatch specification
MaxDispatchFrames == 2
\* the same, in the specification of a client that reads slowly
MaxBurstFrames == 100

(***************************************************************************)
(* Option<T>: None for strings, NoIdx for Option<u32>.                     *)
(***************************************************************************)
None == "None"
NoIdx == -1

\* capacity of mpsc::channel(100)
ChanCap == 100

(***************************************************************************)
(* Model names.  A name is a sequence of tokens; the provider prefixes     *)
(* "anthropic/", "openai/", "gemini/" are tokens of their own, so that     *)
(* strip_prefix, to_lowercase and contains are computed on the name.       *)
(***************************************************************************)
OPENAI_MODELS ==
    { <<"o3-mini">>, <<"o1">>, <<"o1-mini">>, <<"o1-pro">>, <<"gpt-4.5-preview">>,
      <<"gpt-4o">>, <<"gpt-4o-audio-preview">>, <<"chatgpt-4o-latest">>,
      <<"gpt-4o-mini">>, <<"gpt-4o-mini-audio-preview">>, <<"gpt-4.1">>,
      <<"gpt-4.1-mini">> }

\* no model known as a Gemini model
GEMINI_MODELS_None == { }

GEMINI_MODELS == { <<"gemini-2.5-flash">>, <<"gemini-2.5-pro">> }

\* str::to_lowercase, token by token
LowerToken(t) ==
    CASE t = "Haiku"  -> "haiku"
      [] t = "SONNET" -> "sonnet"
      [] t = "Opus"   -> "opus"
      [] t = "GPT-4.1" -> "gpt-4.1"
      [] OTHER -> t

to_lowercase(name) == [i \in DOMAIN name |-> LowerToken(name[i])]

\* str::contains for a pattern that is one token
contains(name, tok) == \E i \in DOMAIN name : name[i] = tok

\* str::strip_prefix: Some(rest) as <<rest>>, None as <<>>
strip_prefix(name, prefix) ==
    IF Len(name) > 0 /\ Head(name) = prefix THEN << Tail(name) >> ELSE << >>

\* no prefix stripped
clean_model_of_Keep(m) == m

\* the chain strip_prefix(..).or_else(..).or_else(..).unwrap_or(model)
clean_model_of(m) ==
    IF strip_prefix(m, "anthropic/") # << >> THEN strip_prefix(m, "anthropic/")[1]
    ELSE IF strip_prefix(m, "openai/") # << >> THEN strip_prefix(m, "openai/")[1]
    ELSE IF strip_prefix(m, "gemini/") # << >> THEN strip_prefix(m, "gemini/")[1]
    ELSE m

\* format!("{}/{}", provider, model)
QualifiedName(provider, m) == <<provider \o "/">> \o m

MappedModel(provider, m) ==
    [provider |-> provider, model |-> m, full_name |-> QualifiedName(provider, m)]

\* the family target always routed to OpenAI
FamilyTarget_OpenAI(cfg, target) == MappedModel("openai", target)

\* the match on preferred_provider guarded by GEMINI_MODELS.contains(target)
FamilyTarget(cfg, target) ==
    IF cfg.preferred_provider = "Google" /\ target \in GEMINI_MODELS
    THEN MappedModel("gemini", target)
    ELSE MappedModel("openai", target)

DefaultProvider(cfg) ==
    CASE cfg.preferred_provider = "OpenAI" -> "openai"
      [] cfg.preferred_provider = "Google" -> "gemini"
      [] cfg.preferred_provider = "Anthropic" -> "anthropic"

\* the haiku rule tried before the Anthropic preference
map_model_FamilyFirst(m, cfg) ==
    IF contains(to_lowercase(clean_model_of(m)), "haiku")
    THEN FamilyTarget(cfg, cfg.small_model)
    ELSE MappedModel(DefaultProvider(cfg), clean_model_of(m))

map_model(m, cfg) ==
    LET clean_model == clean_model_of(m)
        lower_model == to_lowercase(clean_model)
    IN  IF cfg.preferred_provider = "Anthropic" THEN MappedModel("anthropic", clean_model)
        ELSE IF contains(lower_model, "haiku") THEN FamilyTarget(cfg, cfg.small_model)
        ELSE IF contains(lower_model, "sonnet") THEN FamilyTarget(cfg, cfg.big_model)
        ELSE IF contains(lower_model, "opus") THEN FamilyTarget(cfg, cfg.big_model)
        ELSE IF clean_model \in GEMINI_MODELS THEN MappedModel("gemini", clean_model)
        ELSE IF clean_model \in OPENAI_MODELS THEN MappedModel("openai", clean_model)
        ELSE MappedModel(DefaultProvider(cfg), clean_model)

\* a key found for every provider
get_api_key_Any(cfg, provider) == "sk-any"

\* ApiClient::get_api_key
get_api_key(cfg, provider) ==
    CASE provider = "openai" -> cfg.openai_api_key
      [] provider \in {"gemini", "google"} -> cfg.gemini_api_key
      [] provider = "anthropic" -> cfg.anthropic_api_key
      [] OTHER -> None

(***************************************************************************)
(* Stream events (enum StreamEvent) and the StreamError item, as records   *)
(* of one shape.                                                           *)
(***************************************************************************)
BlankEvent ==
    [type |-> "blank", index |-> NoIdx, kind |-> None, text |-> None, id |-> None,
     name |-> None, stop_reason |-> None, output_tokens |-> 0, model |-> <<>>]

MessageStart(id, m) ==
    [BlankEvent EXCEPT !.type = "message_start", !.id = id, !.model = m]

ContentBlockStartText(index) ==
    [BlankEvent EXCEPT !.type = "content_block_start", !.index = index,
                       !.kind = "text", !.text = ""]

ContentBlockStartToolUse(index, id, name) ==
    [BlankEvent EXCEPT !.type = "content_block_start", !.index = index,
                       !.kind = "tool_use", !.id = id, !.name = name]

ContentBlockDelta(index, kind, text) ==
    [BlankEvent EXCEPT !.type = "content_block_delta", !.index = index,
                       !.kind = kind, !.text = text]

ContentBlockStop(index) ==
    [BlankEvent EXCEPT !.type = "content_block_stop", !.index = index]

MessageDelta(stop_reason, output_tokens) ==
    [BlankEvent EXCEPT !.type = "message_delta", !.stop_reason = stop_reason,
                       !.output_tokens = output_tokens]

MessageStop == [BlankEvent EXCEPT !.type = "message_stop"]

Ping == [BlankEvent EXCEPT !.type = "ping"]

\* Err(ApiError::StreamError(..)) as a channel item
StreamErrorItem == [BlankEvent EXCEPT !.type = "error", !.kind = "StreamError"]

\* generate_message_id and the generated tool id
generate_message_id == "msg_uuid"
generate_tool_id == "toolu_uuid"

(***************************************************************************)
(* Upstream frames of the OpenAI-shape stream.  kind is                    *)
(*   "nodata"  a frame without a "data: " line                             *)
(*   "done"    data: [DONE]                                                *)
(*   "bad"     a data payload that does not decode as OpenAIStreamChunk    *)
(*   "chunk"   a decoded OpenAIStreamChunk; has_choice is choices.first()  *)
(* tool_calls None and Some(vec![]) are both <<>>: the code loops over the *)
(* entries and does nothing else with the option.                          *)
(***************************************************************************)
BlankFrame ==
    [kind |-> "nodata", has_choice |-> FALSE, content |-> None, tool_calls |-> <<>>,
     finish_reason |-> None, usage |-> NoIdx]

DoneFrame == [BlankFrame EXCEPT !.kind = "done"]

\* an undecodable payload taken for the end marker
BadFrame_AsDone == [BlankFrame EXCEPT !.kind = "done"]

BadFrame == [BlankFrame EXCEPT !.kind = "bad"]

Chunk(content, tool_calls, finish_reason, usage) ==
    [kind |-> "chunk", has_choice |-> TRUE, content |-> content,
     tool_calls |-> tool_calls, finish_reason |-> finish_reason, usage |-> usage]

NoChoiceChunk == [BlankFrame EXCEPT !.kind = "chunk"]

\* OpenAIStreamToolCall with its optional OpenAIStreamFunction
ToolCall(index, id, has_function, name, arguments) ==
    [index |-> index, id |-> id, has_function |-> has_function, name |-> name,
     arguments |-> arguments]

(***************************************************************************)
(* The streaming translator of stream_openai_request, as a step function  *)
(* on the task's local state st = [sent_message_start,                     *)
(* sent_content_block_start, current_tool_index, content_index] extended   *)
(* with out (the events handed to tx.send, in order) and ret (the task     *)
(* returns after them).                                                    *)
(***************************************************************************)
Emit(st, ev) == [st EXCEPT !.out = Append(@, ev)]

\* the increment forgotten
NextContentIndex_Stuck(ci) == ci

\* content_index += 1
NextContentIndex(ci) == ci + 1

\* the match on finish_reason.as_str()
MapFinishReason(r) ==
    CASE r = "stop" -> "end_turn"
      [] r = "length" -> "max_tokens"
      [] r = "tool_calls" -> "tool_use"
      [] OTHER -> "end_turn"

\* message_start sent for every chunk, the flag never set
HandleMessageStart_NoFlag(st, id, m) == Emit(st, MessageStart(id, m))

\* if !sent_message_start { .. }
HandleMessageStart(st, id, m) ==
    IF ~st.sent_message_start
    THEN Emit([st EXCEPT !.sent_message_start = TRUE], MessageStart(id, m))
    ELSE st

\* "Handle text content"
HandleText(st, content) ==
    IF content # None /\ content # ""
    THEN LET st1 == IF ~st.sent_content_block_start
                    THEN Emit([st EXCEPT !.sent_content_block_start = TRUE],
                              ContentBlockStartText(st.content_index))
                    ELSE st
         IN  Emit(st1, ContentBlockDelta(st1.content_index, "text_delta", content))
    ELSE st

\* "Close previous text block if needed"
CloseTextBlock(st) ==
    IF st.sent_content_block_start /\ st.current_tool_index = NoIdx
    THEN [Emit(st, ContentBlockStop(st.content_index))
            EXCEPT !.content_index = NextContentIndex(@)]
    ELSE st

\* "Send tool_use content_block_start"
OpenToolBlock(st, tc) ==
    IF tc.has_function
    THEN Emit(st, ContentBlockStartToolUse(
                      st.content_index,
                      IF tc.id # None THEN tc.id ELSE generate_tool_id,
                      IF tc.name # None THEN tc.name ELSE ""))
    ELSE st

\* "Send tool call arguments as delta"
ToolArguments(st, tc) ==
    IF tc.has_function /\ tc.arguments # None /\ tc.arguments # ""
    THEN Emit(st, ContentBlockDelta(st.content_index, "input_json_delta", tc.arguments))
    ELSE st

\* the body of `for tool_call in tool_calls`
HandleToolCall(st, tc) ==
    LET tool_idx == IF tc.index = NoIdx THEN 0 ELSE tc.index
        st1 == IF st.current_tool_index # tool_idx
               THEN OpenToolBlock([CloseTextBlock(st) EXCEPT !.current_tool_index = tool_idx], tc)
               ELSE st
    IN  ToolArguments(st1, tc)

RECURSIVE HandleToolCalls(_, _)
HandleToolCalls(st, tcs) ==
    IF tcs = <<>> THEN st
    ELSE HandleToolCalls(HandleToolCall(st, Head(tcs)), Tail(tcs))

\* message_stop sent before message_delta
FinishEvents_StopFirst(ci, finish_reason, usage) ==
    << ContentBlockStop(ci),
       MessageStop,
       MessageDelta(MapFinishReason(finish_reason), IF usage = NoIdx THEN 0 ELSE usage) >>

\* the three events sent for a finish_reason
FinishEvents(ci, finish_reason, usage) ==
    << ContentBlockStop(ci),
       MessageDelta(MapFinishReason(finish_reason), IF usage = NoIdx THEN 0 ELSE usage),
       MessageStop >>

\* the `return` after message_stop forgotten
HandleFinish_NoReturn(st, chunk) ==
    IF chunk.finish_reason # None
    THEN [st EXCEPT !.out = @ \o FinishEvents(st.content_index, chunk.finish_reason, chunk.usage)]
    ELSE st

\* "Handle finish_reason"
HandleFinish(st, chunk) ==
    IF chunk.finish_reason # None
    THEN [st EXCEPT !.out = @ \o FinishEvents(st.content_index, chunk.finish_reason, chunk.usage),
                    !.ret = "finish"]
    ELSE st

\* [DONE] closing the message the way a finish_reason does
DoneEvents_Closing == << ContentBlockStop(0), MessageDelta("end_turn", 0), MessageStop >>

\* the events of data == "[DONE]"
DoneEvents == << MessageStop >>

\* one frame cut from the buffer
ProcessFrame(st, f, id, m) ==
    CASE f.kind = "nodata" -> st
      [] f.kind = "done" -> [st EXCEPT !.out = @ \o DoneEvents, !.ret = "done"]
      [] f.kind = "bad" -> st
      [] f.kind = "chunk" ->
            LET s1 == HandleMessageStart(st, id, m)
            IN  IF f.has_choice
                THEN HandleFinish(HandleToolCalls(HandleText(s1, f.content), f.tool_calls), f)
                ELSE s1

\* "Send final message_stop if we haven't yet"
EndOfStreamEvents == << MessageStop >>

\* the error item followed by a message_stop
TransportErrorEvents_WithStop == << StreamErrorItem, MessageStop >>

\* Err(e) => tx.send(Err(ApiError::StreamError(..)))
TransportErrorEvents == << StreamErrorItem >>

(***************************************************************************)
(* Anthropic native passthrough: parse_anthropic_sse on one frame.         *)
(* A native frame is [kind, event]: "nodata", "done", "bad", or "event"    *)
(* with the decoded StreamEvent.  The result is Some(e) as <<e>>.          *)
(***************************************************************************)
NativeFrame(kind, event) == [kind |-> kind, event |-> event]

\* [DONE] dropped instead of mapped
parse_anthropic_sse_DropDone(f) ==
    IF f.kind = "event" THEN << f.event >> ELSE << >>

parse_anthropic_sse(f) ==
    CASE f.kind = "nodata" -> << >>
      [] f.kind = "done" -> << MessageStop >>
      [] f.kind = "bad" -> << >>
      [] f.kind = "event" -> << f.event >>

(***************************************************************************)
(* ApiError and error_response (server.rs).                                *)
(***************************************************************************)
NoError == [variant |-> "none", provider |-> None, status |-> 0]
MissingApiKey(provider) == [variant |-> "MissingApiKey", provider |-> provider, status |-> 0]
RequestFailed == [variant |-> "RequestFailed", provider |-> None, status |-> 0]
ParseError == [variant |-> "ParseError", provider |-> None, status |-> 0]
StreamError == [variant |-> "StreamError", provider |-> None, status |-> 0]
UpstreamError(status) == [variant |-> "UpstreamError", provider |-> None, status |-> status]

\* StatusCode::from_u16(status).unwrap_or(StatusCode::BAD_GATEWAY)
StatusFromU16(status) == IF status >= 100 /\ status <= 999 THEN status ELSE 502

\* every error answered with 500
ErrorStatus_All500(e) == 500

\* every upstream error answered with 502
ErrorStatus_Upstream502(e) ==
    CASE e.variant = "MissingApiKey" -> 401
      [] e.variant \in { "RequestFailed", "UpstreamError" } -> 502
      [] e.variant \in { "ParseError", "StreamError" } -> 500

ErrorStatus(e) ==
    CASE e.variant = "MissingApiKey" -> 401
      [] e.variant = "RequestFailed" -> 502
      [] e.variant = "ParseError" -> 500
      [] e.variant = "StreamError" -> 500
      [] e.variant = "UpstreamError" -> StatusFromU16(e.status)

\* the HTTP response of create_message: what kind of body, and its status
NoResponse == [kind |-> "none", status |-> 0, error_type |-> None]

error_response(e) == [kind |-> "error", status |-> ErrorStatus(e), error_type |-> "api_error"]

\* Json(response).into_response()
JsonResponse == [kind |-> "json", status |-> 200, error_type |-> None]

\* Sse::new(stream).into_response()
SseResponse == [kind |-> "sse", status |-> 200, error_type |-> None]

\* the upstream's model name copied into the response
ResponseModel_Upstream(response_model, original_model) == response_model

\* the model field of convert_openai_to_anthropic's result
ResponseModel(response_model, original_model) == original_model

\* the model captured by the spawned task: let model = original_model.to_string()
StreamModel(original_model, mapped) == original_model

\* the SSE frame the HTTP layer makes of one channel item
SseFrame(item) ==
    [event |-> IF item.type = "error" THEN "error" ELSE item.type, data |-> item]

(***************************************************************************)
(* Non-streaming translation: convert_openai_to_anthropic.                 *)
(* An OpenAIResponse is [id, model, choices, prompt_tokens,                *)
(* completion_tokens]; a choice is [content, tool_calls, finish_reason],   *)
(* tool_calls None being <<>>; a tool call is [id, name, arguments].       *)
(***************************************************************************)
\* the argument strings serde_json::from_str accepts
ValidJsonTexts == { "{}", "{\"a\":1}" }

\* serde_json::from_str(arguments).unwrap_or_else(|_| json!({"raw": arguments}))
ParseArguments(arguments) ==
    IF arguments \in ValidJsonTexts
    THEN [json |-> "value", of |-> arguments]
    ELSE [json |-> "raw", of |-> arguments]

TextBlock(text) ==
    [type |-> "text", text |-> text, id |-> None, name |-> None,
     input |-> [json |-> "none", of |-> None]]

ToolUseBlock(id, name, input) ==
    [type |-> "tool_use", text |-> None, id |-> id, name |-> name, input |-> input]

\* tool calls whose arguments do not parse are dropped
ToolUseBlocks_DropUnparsed(tool_calls) ==
    LET parsed == SelectSeq(tool_calls, LAMBDA tc : tc.arguments \in ValidJsonTexts)
    IN  [i \in DOMAIN parsed |->
            ToolUseBlock(parsed[i].id, parsed[i].name, ParseArguments(parsed[i].arguments))]

ToolUseBlocks(tool_calls) ==
    [i \in DOMAIN tool_calls |->
        ToolUseBlock(tool_calls[i].id, tool_calls[i].name,
                     ParseArguments(tool_calls[i].arguments))]

\* the content vector before the "never empty" fix
ChoiceContent(choices) ==
    IF choices = << >> THEN << >>
    ELSE LET choice == Head(choices)
         IN  (IF choice.content # None /\ choice.content # ""
              THEN << TextBlock(choice.content) >> ELSE << >>)
             \o ToolUseBlocks(choice.tool_calls)

\* the content vector returned as it is
NonEmptyContent_AsIs(content) == content

\* "Ensure content is never empty"
NonEmptyContent(content) == IF content = << >> THEN << TextBlock("") >> ELSE content

\* every finish reason but "stop" answered with max_tokens
MapResponseFinishReason_Length(r) ==
    CASE r = "stop" -> "end_turn"
      [] OTHER -> "max_tokens"

\* the match on r.as_str() of the response translator
MapResponseFinishReason(r) ==
    CASE r = "stop" -> "end_turn"
      [] r = "length" -> "max_tokens"
      [] r = "tool_calls" -> "tool_use"
      [] OTHER -> "end_turn"

\* "Map finish_reason to stop_reason"
ResponseStopReason(choices) ==
    IF choices = << >> THEN None
    ELSE IF Head(choices).finish_reason = None THEN None
    ELSE MapResponseFinishReason(Head(choices).finish_reason)

convert_openai_to_anthropic(response, original_model) ==
    [id |-> response.id,
     model |-> ResponseModel(response.model, original_model),
     role |-> "assistant",
     content |-> NonEmptyContent(ChoiceContent(response.choices)),
     type |-> "message",
     stop_reason |-> ResponseStopReason(response.choices),
     input_tokens |-> response.prompt_tokens,
     output_tokens |-> response.completion_tokens]

\* a MessagesResponse decoded from an Anthropic upstream body, passed through
NativeBody(m, content, stop_reason) ==
    [id |-> "msg_up", model |-> m, role |-> "assistant", content |-> content,
     type |-> "message", stop_reason |-> stop_reason, input_tokens |-> 1,
     output_tokens |-> 1]

NoBody == NativeBody(<< >>, << >>, None)

(***************************************************************************)
(* JSON values (serde_json::Value) as [t, v]: a string with its text, an   *)
(* object with a function from its keys to values, an array with a         *)
(* sequence of values, any other scalar with its literal.                  *)
(***************************************************************************)
JString(text) == [t |-> "string", v |-> text]
JObject(fields) == [t |-> "object", v |-> fields]
JArray(items) == [t |-> "array", v |-> items]
JScalar(literal) == [t |-> "scalar", v |-> literal]

\* Map::remove for a set of keys
RemoveKeys(fields, keys) == [k \in DOMAIN fields \ keys |-> fields[k]]

\* obj.get(key).and_then(|v| v.as_str()) == Some(text)
HasStr(fields, key, text) ==
    key \in DOMAIN fields /\ fields[key].t = "string" /\ fields[key].v = text

\* "Remove unsupported format for string types"
UnsupportedFormat(fields) ==
    /\ HasStr(fields, "type", "string")
    /\ "format" \in DOMAIN fields /\ fields["format"].t = "string"
    /\ ~(fields["format"].v \in { "enum", "date-time" })

\* one unsupported key removed per call, nested schemas left alone
clean_gemini_schema_OneKey(schema) ==
    IF schema.t # "object" THEN schema
    ELSE IF "additionalProperties" \in DOMAIN schema.v
         THEN JObject(RemoveKeys(schema.v, { "additionalProperties" }))
         ELSE JObject(RemoveKeys(schema.v, { "default" }))

\* the outermost object scrubbed, nested schemas left alone
clean_gemini_schema_Shallow(schema) ==
    IF schema.t = "object"
    THEN LET obj == RemoveKeys(schema.v, { "additionalProperties", "default" })
         IN  JObject(IF UnsupportedFormat(obj) THEN RemoveKeys(obj, { "format" }) ELSE obj)
    ELSE schema

RECURSIVE clean_gemini_schema(_)
clean_gemini_schema(schema) ==
    IF schema.t = "object"
    THEN LET obj == RemoveKeys(schema.v, { "additionalProperties", "default" })
             kept == IF UnsupportedFormat(obj) THEN RemoveKeys(obj, { "format" }) ELSE obj
         IN  JObject([k \in DOMAIN kept |-> clean_gemini_schema(kept[k])])
    ELSE IF schema.t = "array"
    THEN JArray([i \in DOMAIN schema.v |-> clean_gemini_schema(schema.v[i])])
    ELSE schema

\* every provider's tools scrubbed
ToolParameters_Always(provider, input_schema) == clean_gemini_schema(input_schema)

\* the parameters of the OpenAITool made of a tool's input_schema
ToolParameters(provider, input_schema) ==
    IF provider = "gemini" THEN clean_gemini_schema(input_schema) ELSE input_schema

\* a request without tools
NoSchema == JScalar("null")

(***************************************************************************)
(* count_tokens (server.rs).  A String is the sequence of its characters,  *)
(* each given by the number of bytes of its UTF-8 encoding; a content      *)
(* block is [type, text, content], the content of a tool_result being      *)
(* [kind, text, blocks]; Option<String> is << >> or << text >>.            *)
(***************************************************************************)
RECURSIVE Sum(_)
Sum(f) ==
    IF DOMAIN f = { } THEN 0
    ELSE LET k == CHOOSE j \in DOMAIN f : TRUE
         IN  f[k] + Sum([j \in DOMAIN f \ { k } |-> f[j]])

\* String::len: the length in bytes
ByteLen(text) == Sum(text)

\* serde_json::to_string(value).len(), for values without escaped characters
RECURSIVE JsonLen(_)
JsonLen(value) ==
    CASE value.t = "string" -> Len(value.v) + 2
      [] value.t = "scalar" -> Len(value.v)
      [] value.t = "array" ->
            2 + Sum([i \in DOMAIN value.v |-> JsonLen(value.v[i])])
              + (IF Len(value.v) > 0 THEN Len(value.v) - 1 ELSE 0)
      [] value.t = "object" ->
            2 + Sum([k \in DOMAIN value.v |-> Len(k) + 3 + JsonLen(value.v[k])])
              + (IF DOMAIN value.v # { } THEN Cardinality(DOMAIN value.v) - 1 ELSE 0)

NoContent == [kind |-> "none", text |-> << >>, blocks |-> << >>]
TextContent(text) == [kind |-> "text", text |-> text, blocks |-> << >>]
BlocksContent(blocks) == [kind |-> "blocks", text |-> << >>, blocks |-> blocks]

Block(type, text, content) == [type |-> type, text |-> text, content |-> content]

\* "Count system content"
SystemChars(system) ==
    CASE system.kind = "none" -> 0
      [] system.kind = "text" -> ByteLen(system.text)
      [] system.kind = "blocks" ->
            Sum([i \in DOMAIN system.blocks |-> ByteLen(system.blocks[i])])

\* if let ContentBlock::Text { text } = inner
InnerChars(inner) == IF inner.type = "text" THEN ByteLen(inner.text) ELSE 0

\* tool_result blocks not counted
BlockChars_TextOnly(block) == IF block.type = "text" THEN ByteLen(block.text) ELSE 0

\* the match on a block of a message
BlockChars(block) ==
    CASE block.type = "text" -> ByteLen(block.text)
      [] block.type = "tool_result" ->
            IF block.content.kind = "text" THEN ByteLen(block.content.text)
            ELSE Sum([i \in DOMAIN block.content.blocks |->
                        InnerChars(block.content.blocks[i])])
      [] OTHER -> 0

\* "Count messages"
MessageChars(content) ==
    IF content.kind = "text" THEN ByteLen(content.text)
    ELSE Sum([i \in DOMAIN content.blocks |-> BlockChars(content.blocks[i])])

\* "Count tools"
ToolChars(tool) ==
    ByteLen(tool.name)
    + (IF tool.description # << >> THEN ByteLen(tool.description[1]) ELSE 0)
    + JsonLen(tool.input_schema)

count_tokens(req) ==
    LET char_count ==
            SystemChars(req.system)
            + Sum([i \in DOMAIN req.messages |-> MessageChars(req.messages[i])])
            + Sum([i \in DOMAIN req.tools |-> ToolChars(req.tools[i])])
        \* (char_count / 4) as u32: the cast changes a value only from 2^32 on,
        \* that is for 16 GiB of text, beyond the integers of the model
        estimated_tokens == char_count \div 4
    IN  [input_tokens |-> IF estimated_tokens >= 1 THEN estimated_tokens ELSE 1]

TokenCountRequest(system, messages, tools) ==
    [system |-> system, messages |-> messages, tools |-> tools]

Tool(name, description, schema) ==
    [name |-> name, description |-> description, input_schema |-> schema]

\* no count_tokens request, no response yet
NoCountRequest == TokenCountRequest(NoContent, << >>, << >>)
NoCount == [input_tokens |-> 0]

(***************************************************************************)
(* Request translation: the message loop of convert_anthropic_to_openai.   *)
(* A string is the sequence of its pieces: single characters, among them   *)
(* " " and "\n", and longer pieces that hold no leading or trailing        *)
(* whitespace of the string.  A content block is [type, text, id, name,    *)
(* content]: text is the text of a text block, <<media_type, data>> of an  *)
(* image, the JSON-encoded input of a tool_use; id is the id of a tool_use *)
(* and the tool_use_id of a tool_result.  An OpenAI content part is        *)
(* [type, text], text holding the url of an image_url part; the content of *)
(* an OpenAI message is TextContent(..) or the same record of kind "parts".*)
(***************************************************************************)
ContentBlock(type, text, id, name, content) ==
    [type |-> type, text |-> text, id |-> id, name |-> name, content |-> content]

Message(role, content) == [role |-> role, content |-> content]

OpenAIMessage(role, content, tool_calls) ==
    [role |-> role, content |-> content, tool_calls |-> tool_calls]

\* the strings of a sequence, one after the other
RECURSIVE Concat(_)
Concat(strs) == IF strs = << >> THEN << >> ELSE Head(strs) \o Concat(Tail(strs))

\* str::trim
trim(str) ==
    LET kept == { i \in DOMAIN str : str[i] \notin { " ", "\n" } }
    IN  IF kept = { } THEN << >>
        ELSE SubSeq(str, CHOOSE i \in kept : \A j \in kept : i <= j,
                         CHOOSE i \in kept : \A j \in kept : j <= i)

\* a block other than text contributes its JSON encoding, the piece "{type}"
parse_tool_result_content(content) ==
    IF content.kind = "text" THEN content.text
    ELSE trim(Concat([i \in DOMAIN content.blocks |->
                         IF content.blocks[i].type = "text"
                         THEN content.blocks[i].text \o << "\n" >>
                         ELSE << "{", content.blocks[i].type, "}", "\n" >>]))

\* "For user messages with tool results, convert to text format"
UserToolResultMessage(blocks) ==
    LET piece(b) ==
            CASE b.type = "text" -> b.text \o << "\n" >>
              [] b.type = "tool_result" ->
                    << "Tool result for ", b.id, ":", "\n" >>
                      \o parse_tool_result_content(b.content) \o << "\n" >>
              [] OTHER -> << >>
        text_content == Concat([i \in DOMAIN blocks |-> piece(blocks[i])])
    IN  OpenAIMessage("user", TextContent(trim(text_content)), << >>)

\* the content of a regular message, chosen from the parts alone
CollapseParts(parts) ==
    LET Parts == [kind |-> "parts", text |-> << >>, blocks |-> parts]
    IN  IF Len(parts) = 1
        THEN IF parts[1].type = "text" THEN TextContent(parts[1].text) ELSE Parts
        ELSE IF parts = << >> THEN TextContent(<< "..." >>)
        ELSE Parts

\* "Regular message - convert content blocks"
RegularMessage(role, blocks) ==
    LET part(b) ==
            CASE b.type = "text" -> << [type |-> "text", text |-> b.text] >>
              [] b.type = "image" ->
                    << [type |-> "image_url",
                        text |-> << "data:", b.text[1], ";base64,", b.text[2] >>] >>
              [] b.type = "tool_use" -> << >>
              [] b.type = "tool_result" ->
                    << [type |-> "text",
                        text |-> << "Tool result for ", b.id, ":", "\n" >>
                                   \o parse_tool_result_content(b.content)] >>
        call(b) == IF b.type = "tool_use"
                   THEN << [id |-> b.id, name |-> b.name, arguments |-> b.text] >>
                   ELSE << >>
        parts == Concat([i \in DOMAIN blocks |-> part(blocks[i])])
        tool_calls == Concat([i \in DOMAIN blocks |-> call(blocks[i])])
    IN  OpenAIMessage(role, CollapseParts(parts), tool_calls)

\* the OpenAI messages pushed for one message of the request
ConvertMessage(msg) ==
    IF msg.content.kind = "text"
    THEN << OpenAIMessage(msg.role, TextContent(msg.content.text), << >>) >>
    ELSE IF msg.role = "user"
            /\ \E i \in DOMAIN msg.content.blocks : msg.content.blocks[i].type = "tool_result"
         THEN << UserToolResultMessage(msg.content.blocks) >>
         ELSE << RegularMessage(msg.role, msg.content.blocks) >>

\* "Convert conversation messages"
ConvertMessages(msgs) == Concat([i \in DOMAIN msgs |-> ConvertMessage(msgs[i])])

(***************************************************************************)
(* Inputs: requests, configurations, upstream outcomes and frames.         *)
(***************************************************************************)
Request(m, stream) == [model |-> m, stream |-> stream]

ProxyConfig(preferred_provider, big_model, small_model, openai_key, gemini_key, anthropic_key) ==
    [preferred_provider |-> preferred_provider, big_model |-> big_model,
     small_model |-> small_model, openai_api_key |-> openai_key,
     gemini_api_key |-> gemini_key, anthropic_api_key |-> anthropic_key]

\* ProxyConfig::default() with the OpenAI key set
DefaultConfig == ProxyConfig("OpenAI", <<"gpt-4.1">>, <<"gpt-4.1-mini">>, "sk-o", None, None)

\* the requests and configurations of the streaming specification
StreamRequests == { Request(<<"claude-3-", "haiku">>, TRUE) }
StreamConfigs == { DefaultConfig }

\* the model names an upstream may put in its own responses
UpstreamModels == { <<"gpt-4.1-mini">>, <<"claude-3-", "haiku", "-20240307">> }

\* the requests and configurations of the dispatch specification
DispatchModels ==
    { <<"claude-3-", "haiku">>, <<"anthropic/", "claude-3-", "SONNET">>, <<"gemini-2.5-pro">>,
      <<"my-model">> }

DispatchRequests == { Request(m, st) : m \in DispatchModels, st \in BOOLEAN }

DispatchConfigs ==
    { DefaultConfig,
      ProxyConfig("OpenAI", <<"gpt-4.1">>, <<"gpt-4.1-mini">>, None, "g-key", None),
      ProxyConfig("Google", <<"gemini-2.5-pro">>, <<"gpt-4.1-mini">>, "sk-o", "g-key", None),
      ProxyConfig("Google", <<"gemini-2.5-pro">>, <<"gemini-2.5-flash">>, "sk-o", None, "sk-a"),
      ProxyConfig("Anthropic", <<"gpt-4.1">>, <<"gpt-4.1-mini">>, "sk-o", None, "sk-a"),
      ProxyConfig("Anthropic", <<"gpt-4.1">>, <<"gpt-4.1-mini">>, "sk-o", "g-key", None) }

\* what the upstream HTTP call can do: fail to connect, or answer with a status
UpstreamOutcomes ==
    { [issued |-> TRUE, sent |-> FALSE, status |-> 0],
      [issued |-> TRUE, sent |-> TRUE, status |-> 200],
      [issued |-> TRUE, sent |-> TRUE, status |-> 429],
      [issued |-> TRUE, sent |-> TRUE, status |-> 500] }

\* no upstream HTTP request was issued
NoCall == [issued |-> FALSE, sent |-> FALSE, status |-> 0]

\* reqwest StatusCode::is_success
is_success(status) == status >= 200 /\ status <= 299

\* no mapping computed yet, no upstream body decoded
NoMapping == [provider |-> None, model |-> << >>, full_name |-> << >>]
NoReply ==
    [id |-> None, model |-> << >>, choices |-> << >>, prompt_tokens |-> 0,
     completion_tokens |-> 0]

\* upstream bodies of a non-streaming call
OpenAIResponse(m, choices) ==
    [id |-> "chatcmpl-1", model |-> m, choices |-> choices, prompt_tokens |-> 10,
     completion_tokens |-> 3]

Choice(content, tool_calls, finish_reason) ==
    [content |-> content, tool_calls |-> tool_calls, finish_reason |-> finish_reason]

CallOf(id, name, arguments) == [id |-> id, name |-> name, arguments |-> arguments]

ChoiceSeqs ==
    { << >>,
      << Choice("hi", << >>, "stop") >>,
      << Choice("", << CallOf("c", "n", "{\"a\":1}") >>, "tool_calls") >>,
      << Choice(None, << CallOf("c", "n", "oops") >>, None) >>,
      << Choice(None, << >>, "length"), Choice("hi", << >>, "stop") >>,
      << Choice("hi", << >>, "content_filter") >>,
      << Choice("", << >>, "stop") >>,
      << Choice(None, << >>, None) >>,
      << Choice("hi", << CallOf("c", "n", "{}"), CallOf("d", "m", "{\"a\":1}") >>, "tool_calls") >> }

OpenAIResponses == { OpenAIResponse(m, cs) : m \in UpstreamModels, cs \in ChoiceSeqs }

NativeBodies == { NativeBody(m, << TextBlock("hi") >>, "end_turn") : m \in UpstreamModels }

\* frames of the OpenAI-shape stream
EmptyText == Chunk("", << >>, None, NoIdx)
TextA == Chunk("a", << >>, None, NoIdx)
Tool0 == Chunk(None, << ToolCall(0, "call_1", TRUE, "f", "{") >>, None, NoIdx)
Tool1 == Chunk(None, << ToolCall(1, None, TRUE, None, None) >>, None, NoIdx)
ToolNoFn == Chunk(None, << ToolCall(NoIdx, "call_1", FALSE, None, None) >>, None, NoIdx)
TextTools ==
    Chunk("a", << ToolCall(NoIdx, None, TRUE, "f", ""), ToolCall(1, "call_2", TRUE, "g", "{") >>,
          None, NoIdx)
FinishStop == Chunk(None, << >>, "stop", 2)
FinishLength == Chunk("a", << >>, "length", NoIdx)
FinishTool == Chunk(None, << ToolCall(0, None, TRUE, None, "}") >>, "tool_calls", NoIdx)
FinishOther == Chunk(None, << >>, "content_filter", NoIdx)

Frames ==
    { BlankFrame, DoneFrame, BadFrame, NoChoiceChunk, EmptyText, TextA, Tool0, Tool1,
      ToolNoFn, TextTools, FinishStop, FinishLength, FinishTool, FinishOther }

\* the frames of the dispatch specification
DispatchFrames ==
    { DoneFrame, BadFrame, TextA, FinishStop, FinishLength, FinishTool, FinishOther }

\* frames of the Anthropic native stream
NativeFrames ==
    { NativeFrame("nodata", Ping), NativeFrame("done", Ping), NativeFrame("bad", Ping),
      NativeFrame("event", Ping), NativeFrame("event", MessageStop),
      NativeFrame("event", ContentBlockDelta(0, "text_delta", "a")) }
      \cup { NativeFrame("event", MessageStart("msg_up", m)) : m \in UpstreamModels }

(***************************************************************************)
(* State.                                                                  *)
(***************************************************************************)
VARIABLES
    request,        \* the MessagesRequest of the transaction: [model, stream]
    config,         \* the ProxyConfig of the ApiClient
    input_schema,   \* the input_schema of the request's tool, NoSchema without tools
    count_request,  \* the TokenCountRequest posted to /v1/messages/count_tokens
    request_messages, \* the messages of the MessagesRequest
    stream_bytes,   \* the bytes of the upstream response body, in order
    unread,         \* the bytes of the body the network has not delivered yet
    buffer,         \* the task's buffer: the decoded text not yet cut into frames
    data_lines,     \* history: the data payload of every frame cut from buffer
    http,           \* the HTTP response create_message returned
    body,           \* the MessagesResponse of a JSON response
    api_error,      \* the ApiError create_message got, NoError if none
    upstream,       \* the upstream HTTP request of the transaction and its outcome
    mapped,         \* the MappedModel send_message / send_message_streaming computed
    reply,          \* the upstream body a non-streaming call decoded, NoReply if none
    parameters,     \* the parameters of the tool in the OpenAIRequest, NoSchema if none
    count_response, \* the TokenCountResponse, NoCount before the handler has run
    openai_messages, \* the messages of the OpenAIRequest, << >> if none was built
    producer,       \* "none", or the spawned task: "openai" or "native"
    ppc,            \* the task: "idle" (not spawned), "run", "done" (returned)
    sent_message_start,
    sent_content_block_start,
    current_tool_index,
    content_index,
    model,          \* original_model captured by the task
    pending,        \* items the task has still to pass to tx.send for the current read
    term,           \* why the task is returning: "none", "finish", "done", "eof", "error", "closed"
    nread,          \* frames taken from the upstream so far
    chan,           \* the mpsc channel
    rx,             \* the receiver: "none", "open", "dropped" (client gone), "ended"
    emitted,        \* history: every item the task passed to tx.send, in order
    delivered,      \* history: the SSE frames written to the client
    send_failed     \* history: a tx.send returned Err

wireVars == << stream_bytes, unread, buffer, data_lines >>
reqVars == << request, config, input_schema, count_request, request_messages, wireVars >>
respVars ==
    << http, body, api_error, upstream, mapped, reply, parameters, count_response,
       openai_messages >>
machineVars == << sent_message_start, sent_content_block_start, current_tool_index, content_index >>
taskVars == << producer, ppc, model, pending, term, nread >>
chanVars == << chan, rx, emitted, delivered, send_failed >>
vars == << reqVars, respVars, machineVars, taskVars, chanVars >>

InitWith(Requests, Configs, Schemas, Counts, Conversations, Bodies) ==
    /\ request \in Requests
    /\ config \in Configs
    /\ input_schema \in Schemas
    /\ count_request \in Counts
    /\ request_messages \in Conversations
    /\ stream_bytes \in Bodies
    /\ unread = stream_bytes
    /\ buffer = << >>
    /\ data_lines = << >>
    /\ openai_messages = << >>
    /\ parameters = NoSchema
    /\ count_response = NoCount
    /\ http = NoResponse
    /\ body = NoBody
    /\ api_error = NoError
    /\ upstream = NoCall
    /\ mapped = NoMapping
    /\ reply = NoReply
    /\ producer = "none"
    /\ ppc = "idle"
    /\ sent_message_start = FALSE
    /\ sent_content_block_start = FALSE
    /\ current_tool_index = NoIdx
    /\ content_index = 0
    /\ model = << >>
    /\ pending = << >>
    /\ term = "none"
    /\ nread = 0
    /\ chan = << >>
    /\ rx = "none"
    /\ emitted = << >>
    /\ delivered = << >>
    /\ send_failed = FALSE

InitOf(Requests, Configs) ==
    InitWith(Requests, Configs, { NoSchema }, { NoCountRequest }, { << >> }, { << >> })

(***************************************************************************)
(* create_message (server.rs) with send_message / send_message_streaming   *)
(* and the upstream call they make (client.rs), up to the HTTP response.   *)
(***************************************************************************)
\* Err(e) => error_response(e)
Fail(e) ==
    /\ api_error' = e
    /\ http' = error_response(e)
    /\ UNCHANGED << body, machineVars, taskVars, chanVars >>

\* Ok(response) => Json(response).into_response()
Respond(b) ==
    /\ api_error' = NoError
    /\ http' = JsonResponse
    /\ body' = b
    /\ UNCHANGED << machineVars, taskVars, chanVars >>

\* mpsc::channel(100); tokio::spawn(..); Ok(rx) => Sse::new(stream)
Spawn(kind, m) ==
    /\ api_error' = NoError
    /\ http' = SseResponse
    /\ producer' = kind
    /\ ppc' = "run"
    /\ model' = m
    /\ rx' = "open"
    /\ UNCHANGED << body, machineVars, pending, term, nread, chan, emitted, delivered, send_failed >>

\* the upstream body decoded, then Respond
Decoded(r, b) ==
    /\ reply' = r
    /\ Respond(b)

CreateMessage ==
    /\ http.kind = "none"
    /\ UNCHANGED << reqVars, count_response >>
    /\ LET m == map_model(request.model, config)
           key == get_api_key(config, m.provider)
       IN  /\ mapped' = m
           /\ openai_messages' = IF m.provider = "anthropic" THEN << >>
                                 ELSE ConvertMessages(request_messages)
           /\ parameters' = IF m.provider = "anthropic" \/ input_schema = NoSchema
                            THEN NoSchema
                            ELSE ToolParameters(m.provider, input_schema)
           /\ IF key = None
              THEN /\ upstream' = NoCall
                   /\ reply' = NoReply
                   /\ Fail(MissingApiKey(m.provider))
              ELSE \E up \in UpstreamOutcomes :
                     /\ upstream' = up
                     /\ IF ~up.sent THEN reply' = NoReply /\ Fail(RequestFailed)
                        ELSE IF ~is_success(up.status)
                             THEN reply' = NoReply /\ Fail(UpstreamError(up.status))
                        ELSE IF request.stream
                             THEN /\ reply' = NoReply
                                  /\ IF m.provider = "anthropic"
                                     THEN Spawn("native", << >>)
                                     ELSE Spawn("openai", StreamModel(request.model, m))
                             ELSE \/ reply' = NoReply /\ Fail(ParseError)
                                  \/ IF m.provider = "anthropic"
                                     THEN \E b \in NativeBodies : Decoded(b, b)
                                     ELSE \E r \in OpenAIResponses :
                                            Decoded(r, convert_openai_to_anthropic(r, request.model))

\* POST /v1/messages/count_tokens
CountTokens ==
    /\ count_response = NoCount
    /\ count_response' = count_tokens(count_request)
    /\ UNCHANGED << reqVars, http, body, api_error, upstream, mapped, reply, parameters,
                    openai_messages, machineVars, taskVars, chanVars >>

(***************************************************************************)
(* The spawned producer tasks.  A task is either at stream.next().await    *)
(* (pending empty) or at a tx.send(..).await (pending non-empty).          *)
(***************************************************************************)
AtRead(kind) == producer = kind /\ ppc = "run" /\ pending = << >> /\ term = "none"

\* stream_openai_request: one frame cut from the buffer and translated
OpenAIReadOf(f, maxf) ==
    /\ AtRead("openai")
    /\ nread < maxf
    /\ LET st0 == [sent_message_start |-> sent_message_start,
                   sent_content_block_start |-> sent_content_block_start,
                   current_tool_index |-> current_tool_index,
                   content_index |-> content_index,
                   out |-> << >>, ret |-> "none"]
           st == ProcessFrame(st0, f, generate_message_id, model)
       IN  /\ sent_message_start' = st.sent_message_start
           /\ sent_content_block_start' = st.sent_content_block_start
           /\ current_tool_index' = st.current_tool_index
           /\ content_index' = st.content_index
           /\ pending' = st.out
           /\ term' = st.ret
    /\ nread' = nread + 1
    /\ UNCHANGED << reqVars, respVars, producer, ppc, model, chanVars >>

OpenAIRead(FrameSet, maxf) == \E f \in FrameSet : OpenAIReadOf(f, maxf)

\* stream_anthropic_native: one frame cut from the buffer and decoded
NativeReadOf(f, maxf) ==
    /\ AtRead("native")
    /\ nread < maxf
    /\ pending' = parse_anthropic_sse(f)
    /\ nread' = nread + 1
    /\ UNCHANGED << reqVars, respVars, machineVars, producer, ppc, model, term, chanVars >>

NativeRead(FrameSet, maxf) == \E f \in FrameSet : NativeReadOf(f, maxf)

\* stream.next() yields Err(e), in either task
TransportError ==
    /\ producer # "none" /\ ppc = "run" /\ pending = << >> /\ term = "none"
    /\ pending' = TransportErrorEvents
    /\ term' = "error"
    /\ UNCHANGED << reqVars, respVars, machineVars, producer, ppc, model, nread, chanVars >>

\* stream.next() yields None in stream_openai_request
OpenAIEndOfStream ==
    /\ AtRead("openai")
    /\ pending' = EndOfStreamEvents
    /\ term' = "eof"
    /\ UNCHANGED << reqVars, respVars, machineVars, producer, ppc, model, nread, chanVars >>

\* stream.next() yields None in stream_anthropic_native: the task ends
NativeEndOfStream ==
    /\ AtRead("native")
    /\ term' = "eof"
    /\ ppc' = "done"
    /\ UNCHANGED << reqVars, respVars, machineVars, producer, model, pending, nread, chanVars >>

\* whether the task returns when tx.send fails: `let _ =` against `.is_err()`
SendErrorReturns(kind) == kind = "native"

\* the task never returns after its last send
AfterSend_NeverDone(rest, why) == "run"

\* the task's position after a send that it does not return from
AfterSend(rest, why) == IF rest = << >> /\ why # "none" THEN "done" ELSE "run"

\* a channel that takes every item at once
HasCapacity_Unbounded(ch) == TRUE

\* a bounded mpsc channel takes an item only below its capacity; the send
\* waits otherwise
HasCapacity(ch) == Len(ch) < ChanCap

\* one tx.send(item).await
Send ==
    /\ ppc = "run" /\ pending # << >>
    /\ emitted' = Append(emitted, Head(pending))
    /\ IF rx = "dropped"
       THEN /\ send_failed' = TRUE
            /\ chan' = chan
            /\ IF SendErrorReturns(producer)
               THEN /\ pending' = << >>
                    /\ term' = IF term = "none" THEN "closed" ELSE term
                    /\ ppc' = "done"
               ELSE /\ pending' = Tail(pending)
                    /\ term' = term
                    /\ ppc' = AfterSend(Tail(pending), term)
       ELSE /\ HasCapacity(chan)
            /\ chan' = Append(chan, Head(pending))
            /\ send_failed' = send_failed
            /\ pending' = Tail(pending)
            /\ term' = term
            /\ ppc' = AfterSend(Tail(pending), term)
    /\ UNCHANGED << reqVars, respVars, machineVars, producer, model, nread, rx, delivered >>

(***************************************************************************)
(* The HTTP response side: ReceiverStream mapped to SSE frames.            *)
(***************************************************************************)
ClientRecv ==
    /\ rx = "open" /\ chan # << >>
    /\ delivered' = Append(delivered, SseFrame(Head(chan)))
    /\ chan' = Tail(chan)
    /\ UNCHANGED << reqVars, respVars, machineVars, taskVars, rx, emitted, send_failed >>

\* the client disconnects: the response stream and its receiver are dropped
ClientDisconnect ==
    /\ rx = "open"
    /\ rx' = "dropped"
    /\ chan' = << >>
    /\ UNCHANGED << reqVars, respVars, machineVars, taskVars, emitted, delivered, send_failed >>

\* the sender is gone and the channel is drained: the SSE response ends
StreamEnd ==
    /\ rx = "open" /\ chan = << >> /\ ppc = "done"
    /\ rx' = "ended"
    /\ UNCHANGED << reqVars, respVars, machineVars, taskVars, chan, emitted, delivered, send_failed >>

(***************************************************************************)
(* Specifications.                                                         *)
(***************************************************************************)
ReadFrame == OpenAIRead(Frames, MaxFrames)

Init == InitOf(StreamRequests, StreamConfigs)

Next ==
    \/ CreateMessage
    \/ ReadFrame
    \/ TransportError
    \/ OpenAIEndOfStream
    \/ Send
    \/ ClientRecv
    \/ ClientDisconnect
    \/ StreamEnd

Spec == Init /\ [][Next]_vars

\* every route (OpenAI, Gemini, Anthropic passthrough), streaming or not
DispatchReadFrame == OpenAIRead(DispatchFrames, MaxDispatchFrames)
NativeReadFrame == NativeRead(NativeFrames, MaxDispatchFrames)

InitDispatch == InitOf(DispatchRequests, DispatchConfigs)

NextDispatch ==
    \/ CreateMessage
    \/ DispatchReadFrame
    \/ NativeReadFrame
    \/ TransportError
    \/ OpenAIEndOfStream
    \/ NativeEndOfStream
    \/ Send
    \/ ClientRecv
    \/ ClientDisconnect
    \/ StreamEnd

SpecDispatch == InitDispatch /\ [][NextDispatch]_vars

\* routing alone: many model names and configurations, one create_message each
RoutingPrefixes == { "anthropic/", "openai/", "gemini/" }

RoutingRequests ==
    LET names ==
            OPENAI_MODELS \cup GEMINI_MODELS \cup
            { << >>, <<"my-model">>, <<"GPT-4.1">>, <<"claude-3-", "haiku">>, <<"Haiku">>,
              <<"claude-3-5-", "SONNET">>, <<"claude-", "Opus", "-4">>,
              <<"claude-", "haiku", "-", "sonnet">>, <<"opus", "-", "Haiku">>,
              <<"gemini/", "gemini-2.5-pro">> }
    IN  { Request(m, st) :
            m \in names \cup { <<p>> \o n : p \in RoutingPrefixes, n \in names },
            st \in BOOLEAN }

RoutingConfigs ==
    { ProxyConfig(p, t[1], t[2], "sk-o", "g-key", "sk-a") :
        p \in { "OpenAI", "Google", "Anthropic" },
        t \in { << <<"gpt-4.1">>, <<"gpt-4.1-mini">> >>,
                << <<"gemini-2.5-pro">>, <<"gemini-2.5-flash">> >>,
                << <<"gemini-2.5-pro">>, <<"gpt-4.1-mini">> >>,
                << <<"gpt-4.1">>, <<"gemini-2.5-flash">> >> } }
    \cup { DefaultConfig, ProxyConfig("OpenAI", <<"gpt-4.1">>, <<"gpt-4.1-mini">>, None, None, None) }

SpecRouting == InitOf(RoutingRequests, RoutingConfigs) /\ [][CreateMessage]_vars

\* tool schemas: objects with every subset of the keys the scrubber looks at,
\* alone, under properties (one property is itself named default) and in an
\* array
Schemas ==
    LET full == { [type |-> JString(ty), format |-> fm, default |-> JString("x"),
                   additionalProperties |-> JScalar("false")] :
                    ty \in { "string", "integer" },
                    fm \in { JString("uri"), JString("date-time"),
                             JObject([type |-> JString("string")]) } }
        leaf == { JObject([k \in keys |-> f[k]]) :
                    keys \in SUBSET { "type", "format", "default", "additionalProperties" },
                    f \in full }
        uri == JObject([type |-> JString("string"), format |-> JString("uri")])
    IN  leaf
        \cup { JObject([type |-> JString("object"), default |-> a,
                        properties |-> JObject([name |-> a, default |-> uri])]) : a \in leaf }
        \cup { JObject([type |-> JString("string"), format |-> JString("uri"),
                        anyOf |-> JArray(<< a, JString("x") >>)]) : a \in leaf }
        \cup { JString("string"), JArray(<< >>) }

\* requests with one tool, routed to OpenAI and to Gemini
SpecSchema ==
    /\ InitWith(StreamRequests,
                { DefaultConfig,
                  ProxyConfig("Google", <<"gemini-2.5-pro">>, <<"gemini-2.5-flash">>,
                              "sk-o", "g-key", None) },
                Schemas, { NoCountRequest }, { << >> }, { << >> })
    /\ [][CreateMessage]_vars

\* count_tokens requests: texts of 0, 3, 5 and 8 bytes (the one of 5 bytes has
\* 3 characters), system prompts, message contents and tools
CountRequests ==
    LET empty == << >>
        three == <<1, 1, 1>>
        five == <<1, 2, 2>>
        eight == <<1, 1, 1, 1, 1, 1, 1, 1>>
        systems == { NoContent, TextContent(five), BlocksContent(<< three, eight >>) }
        contents ==
            { TextContent(three),
              TextContent(empty),
              BlocksContent(<< Block("text", five, NoContent) >>),
              BlocksContent(<< Block("tool_result", << >>, TextContent(eight)) >>),
              BlocksContent(<< Block("tool_use", << >>, NoContent),
                               Block("image", << >>, NoContent),
                               Block("text", eight, NoContent) >>),
              BlocksContent(<< Block("tool_result", << >>,
                                     BlocksContent(<< Block("text", three, NoContent),
                                                      Block("image", << >>, NoContent) >>)) >>),
              BlocksContent(<< Block("tool_result", << >>,
                                     BlocksContent(<< Block("tool_result", << >>,
                                                            TextContent(eight)) >>)) >>) }
        messages ==
            { << >> } \cup { << c >> : c \in contents }
            \cup { << TextContent(five), c >> : c \in contents }
        tools ==
            { << >>,
              << Tool(three, << >>, JObject(<< >>)) >>,
              << Tool(five, << eight >>,
                      JObject([type |-> JString("object"),
                               required |-> JArray(<< JString("a"), JScalar("1") >>)])),
                 Tool(empty, << empty >>, JScalar("null")) >> }
    IN  { TokenCountRequest(sy, ms, ts) : sy \in systems, ms \in messages, ts \in tools }

SpecCount ==
    /\ InitWith(StreamRequests, StreamConfigs, { NoSchema }, CountRequests, { << >> }, { << >> })
    /\ [][CountTokens]_vars

\* conversations of one message: either role, string content and block lists
\* with and without text, images, tool calls and tool results
Conversations ==
    LET text(t) == ContentBlock("text", t, None, None, NoContent)
        image == ContentBlock("image", << "image/png", "iVBO" >>, None, None, NoContent)
        use(id) == ContentBlock("tool_use", << "{", "}" >>, id, "f", NoContent)
        result(id, c) == ContentBlock("tool_result", << >>, id, None, c)
        contents ==
            { TextContent(<< "h", "i" >>),
              BlocksContent(<< >>),
              BlocksContent(<< text(<< "a" >>) >>),
              BlocksContent(<< text(<< "a" >>), text(<< "b" >>) >>),
              BlocksContent(<< image >>),
              BlocksContent(<< text(<< "a" >>), image >>),
              BlocksContent(<< use("toolu_1") >>),
              BlocksContent(<< text(<< "a" >>), use("toolu_1"), use("toolu_2") >>),
              BlocksContent(<< result("toolu_1", TextContent(<< "o", "k" >>)) >>),
              BlocksContent(<< text(<< "a" >>), text(<< "b" >>),
                               result("toolu_1", TextContent(<< "o", "k" >>)) >>),
              BlocksContent(<< result("toolu_1", TextContent(<< "o", "k" >>)),
                               text(<< "a", " " >>),
                               result("toolu_2", BlocksContent(<< text(<< "n", "o" >>), image >>)),
                               use("toolu_3") >>),
              BlocksContent(<< image, result("toolu_1", TextContent(<< >>)) >>) }
    IN  { << Message(role, c) >> : role \in { "user", "assistant" }, c \in contents }

SpecMessages ==
    /\ InitWith(DispatchRequests, DispatchConfigs, { NoSchema }, { NoCountRequest }, Conversations,
                { << >> })
    /\ [][CreateMessage]_vars

\* a long OpenAI-shape stream of text chunks and a client that may read slowly
BurstReadFrame == OpenAIRead({ TextA }, MaxBurstFrames)

NextBurst ==
    \/ CreateMessage
    \/ BurstReadFrame
    \/ OpenAIEndOfStream
    \/ Send
    \/ ClientRecv
    \/ StreamEnd

SpecBurst == InitOf(StreamRequests, StreamConfigs) /\ [][NextBurst]_vars

\* a stream of either producer, long enough to fill the channel, that ends in
\* any of the four ways, read by a client that keeps receiving
LiveReadFrame == OpenAIRead({ TextA, FinishStop, DoneFrame }, MaxBurstFrames)
LiveNativeReadFrame ==
    NativeRead({ NativeFrame("event", ContentBlockDelta(0, "text_delta", "a")) }, MaxBurstFrames)

\* the upstream body yields its next item or ends
UpstreamStep ==
    \/ LiveReadFrame
    \/ LiveNativeReadFrame
    \/ TransportError
    \/ OpenAIEndOfStream
    \/ NativeEndOfStream

NextLive ==
    \/ CreateMessage
    \/ UpstreamStep
    \/ Send
    \/ ClientRecv
    \/ StreamEnd

\* the upstream eventually ends, the runtime runs a task that can proceed,
\* the client keeps receiving, and the response ends once its source is closed
SpecLive ==
    /\ InitOf({ Request(<<"claude-3-", "haiku">>, TRUE) },
              { DefaultConfig,
                ProxyConfig("Anthropic", <<"gpt-4.1">>, <<"gpt-4.1-mini">>, "sk-o", None, "sk-a") })
    /\ [][NextLive]_vars
    /\ WF_vars(UpstreamStep)
    /\ WF_vars(Send)
    /\ WF_vars(ClientRecv)
    /\ WF_vars(StreamEnd)

(***************************************************************************)
(* The byte stream of the upstream body (client.rs): each network chunk is *)
(* decoded on its own, appended to buffer, and buffer is cut into frames   *)
(* at every blank line.  A byte is "\n", "data: " (the six ASCII bytes of  *)
(* the field name, taken as one unit), "a" (any other ASCII byte), or one  *)
(* of the two bytes "C3", "A9" of the UTF-8 encoding of U+00E9.            *)
(***************************************************************************)
MaxWireFrames == 2

\* String::from_utf8_lossy: a complete two-byte sequence is its character,
\* every byte that is not part of a complete sequence is U+FFFD
RECURSIVE from_utf8_lossy(_)
from_utf8_lossy(bytes) ==
    IF bytes = << >> THEN << >>
    ELSE IF bytes[1] = "C3"
    THEN IF Len(bytes) >= 2 /\ bytes[2] = "A9"
         THEN << "U+00E9" >> \o from_utf8_lossy(SubSeq(bytes, 3, Len(bytes)))
         ELSE << "U+FFFD" >> \o from_utf8_lossy(Tail(bytes))
    ELSE IF bytes[1] = "A9"
    THEN << "U+FFFD" >> \o from_utf8_lossy(Tail(bytes))
    ELSE << bytes[1] >> \o from_utf8_lossy(Tail(bytes))

\* str::lines: the text between line feeds, without a final empty line
RECURSIVE lines(_)
lines(text) ==
    IF text = << >> THEN << >>
    ELSE LET Feeds == { i \in DOMAIN text : text[i] = "\n" }
         IN  IF Feeds = { } THEN << text >>
             ELSE LET first == CHOOSE i \in Feeds : \A j \in Feeds : i <= j
                  IN  << SubSeq(text, 1, first - 1) >>
                          \o lines(SubSeq(text, first + 1, Len(text)))

\* the payload of the first line that starts with "data: ", in a sequence of
\* at most one element
data_line(event_str) ==
    LET ls == lines(event_str)
        Data == { i \in DOMAIN ls : ls[i] # << >> /\ ls[i][1] = "data: " }
    IN  IF Data = { } THEN << >>
        ELSE << Tail(ls[CHOOSE i \in Data : \A j \in Data : i <= j]) >>

\* while let Some(pos) = buffer.find("\n\n"): cut the frame before pos and
\* hand its data payload on
RECURSIVE ProcessBuffer(_, _)
ProcessBuffer(buf, out) ==
    LET Found == { i \in 1..(Len(buf) - 1) : buf[i] = "\n" /\ buf[i + 1] = "\n" }
    IN  IF Found = { } THEN [buffer |-> buf, data_lines |-> out]
        ELSE LET pos == CHOOSE i \in Found : \A j \in Found : i <= j
                 event_str == SubSeq(buf, 1, pos - 1)
             IN  ProcessBuffer(SubSeq(buf, pos + 2, Len(buf)), out \o data_line(event_str))

\* frames as an upstream writes them: a data line, alone or after another field
WireFrames ==
    { << "data: ", "a" >>,
      << "data: ", "C3", "A9" >>,
      << "a", "\n", "data: ", "a", "C3", "A9" >> }

\* bodies of up to MaxWireFrames frames, each ended by a blank line
RECURSIVE WireBodies(_)
WireBodies(n) ==
    IF n = 0 THEN { << >> }
    ELSE LET shorter == WireBodies(n - 1)
         IN  shorter \cup { b \o f \o << "\n", "\n" >> : b \in shorter, f \in WireFrames }

\* stream.next() yields Ok(bytes): the next bytes of the body, however many
\* the network delivers at once
ReadChunk ==
    /\ unread # << >>
    /\ \E n \in 1..Len(unread) :
          LET bytes == SubSeq(unread, 1, n)
              cut == ProcessBuffer(buffer \o from_utf8_lossy(bytes), data_lines)
          IN  /\ unread' = SubSeq(unread, n + 1, Len(unread))
              /\ buffer' = cut.buffer
              /\ data_lines' = cut.data_lines
    /\ UNCHANGED << request, config, input_schema, count_request, request_messages,
                    stream_bytes, respVars, machineVars, taskVars, chanVars >>

SpecChunks ==
    /\ InitWith({ Request(<<"claude-3-", "haiku">>, TRUE) }, { DefaultConfig },
                { NoSchema }, { NoCountRequest }, { << >> }, WireBodies(MaxWireFrames))
    /\ [][ReadChunk]_vars

(***************************************************************************)
(* Properties.                                                             *)
(***************************************************************************)
Positions(seq, type) == { p \in DOMAIN seq : seq[p].type = type }
FramePositions(seq, event) == { p \in DOMAIN seq : seq[p].event = event }
MaxOf(S) == CHOOSE x \in S : \A y \in S : y <= x

\* C1: the items the OpenAI-shape producer passes to the channel start with
\* message_start, and when the producer has returned they hold exactly one
\* message_start, whatever the upstream sent.
C1_OneMessageStartFirst ==
    producer = "openai" =>
        /\ emitted # << >> => emitted[1].type = "message_start"
        /\ ppc = "done" => Cardinality(Positions(emitted, "message_start")) = 1

\* C2: a streamed response that was delivered to its end holds exactly one
\* message_stop, and it is the last frame, whichever way the upstream ended.
C2_OneMessageStopLast ==
    rx = "ended" =>
        /\ Cardinality(FramePositions(delivered, "message_stop")) = 1
        /\ delivered[Len(delivered)].event = "message_stop"

\* C2 (amended): an OpenAI-shape stream delivered to its end that ended by a
\* finish_reason chunk, [DONE] or end of stream holds exactly one message_stop,
\* as its last frame; one that ended by a transport error holds no
\* message_stop and its last frame is the error frame.
C2_Amended ==
    (producer = "openai" /\ rx = "ended") =>
        IF term = "error"
        THEN /\ FramePositions(delivered, "message_stop") = {}
             /\ delivered[Len(delivered)].event = "error"
        ELSE /\ term \in {"finish", "done", "eof"}
             /\ Cardinality(FramePositions(delivered, "message_stop")) = 1
             /\ delivered[Len(delivered)].event = "message_stop"

C2_Witness ==
    /\ producer = "openai" /\ rx = "ended" /\ term = "finish"
    /\ FramePositions(delivered, "content_block_delta") # {}

\* the latest content_block_start before position p, 0 if there is none
LastStartBefore(seq, p) ==
    LET starts == { q \in 1..(p - 1) : seq[q].type = "content_block_start" }
    IN  IF starts = {} THEN 0 ELSE MaxOf(starts)

StoppedBetween(seq, q, p, i) ==
    \E r \in (q + 1)..(p - 1) : seq[r].type = "content_block_stop" /\ seq[r].index = i

\* C3: every content_block_delta(i) is emitted while the most recently
\* started block has index i and has not been stopped.
C3_DeltaAddressesOpenBlock ==
    producer = "openai" =>
        \A p \in Positions(emitted, "content_block_delta") :
            LET q == LastStartBefore(emitted, p)
            IN  /\ q # 0
                /\ emitted[q].index = emitted[p].index
                /\ ~StoppedBetween(emitted, q, p, emitted[p].index)

\* C4: a tool_use block is opened only after the block opened before it has
\* been closed with content_block_stop, also when the previous block is a
\* tool_use block of another slot.
C4_SlotChangeClosesPreviousBlock ==
    producer = "openai" =>
        \A p \in Positions(emitted, "content_block_start") :
            LET q == LastStartBefore(emitted, p)
            IN  (emitted[p].kind = "tool_use" /\ q # 0) =>
                    StoppedBetween(emitted, q, p, emitted[q].index)

\* C5: no two content_block_stop events of one stream carry the same index.
C5_AtMostOneStopPerIndex ==
    producer = "openai" =>
        \A p, q \in Positions(emitted, "content_block_stop") :
            p # q => emitted[p].index # emitted[q].index

C5_Witness ==
    /\ producer = "openai"
    /\ \E p, q \in Positions(emitted, "content_block_stop") :
          emitted[p].index = 0 /\ emitted[q].index = 1

IndexedTypes == { "content_block_start", "content_block_delta", "content_block_stop" }

\* the positions of the events that carry an index
IndexedPositions(seq) == { p \in DOMAIN seq : seq[p].type \in IndexedTypes }

\* C6, the indices: read in emission order they begin at 0, never decrease
\* and never skip a value.
C6_IndicesContiguous ==
    producer = "openai" =>
        \A p \in IndexedPositions(emitted) :
            LET before == { q \in IndexedPositions(emitted) : q < p }
            IN  IF before = {} THEN emitted[p].index = 0
                ELSE emitted[p].index \in
                        { emitted[MaxOf(before)].index, emitted[MaxOf(before)].index + 1 }

\* C6, the state variable: content_index changes only by +1, in a step that
\* closes the block at the old index and next opens a block at the new one.
C6_IndexStep ==
    content_index' # content_index =>
        /\ content_index' = content_index + 1
        /\ \E k \in 1..(Len(pending') - 1) :
              /\ pending'[k] = ContentBlockStop(content_index)
              /\ pending'[k + 1].type = "content_block_start"
              /\ pending'[k + 1].index = content_index'

\* C6: the indices of a stream are contiguous from 0 and content_index moves
\* only by +1 at a boundary where a block is closed and another is opened.
C6_ContiguousIndices == [](C6_IndicesContiguous) /\ [][C6_IndexStep]_vars

\* C7: every message_stop is preceded by a message_delta of the same stream.
C7_DeltaBeforeEveryStop ==
    producer = "openai" =>
        \A p \in Positions(emitted, "message_stop") :
            \E q \in Positions(emitted, "message_delta") : q < p

\* C7 (amended): a message_stop caused by a finish_reason chunk comes right
\* after a message_delta; a message_stop caused by [DONE] or by the end of the
\* upstream is emitted in a stream without any message_delta; a
\* message_delta is never emitted after a message_stop.
C7_Amended ==
    producer = "openai" =>
        /\ \A p \in Positions(emitted, "message_stop") :
              IF term = "finish"
              THEN p > 1 /\ emitted[p - 1].type = "message_delta"
              ELSE Positions(emitted, "message_delta") = {}
        /\ \A q \in Positions(emitted, "message_delta") :
              /\ term = "finish"
              /\ \A p \in Positions(emitted, "message_stop") : q < p

C7_Witness ==
    /\ producer = "openai" /\ term = "finish" /\ ppc = "done"
    /\ emitted[Len(emitted)].type = "message_stop"
    /\ emitted[Len(emitted) - 1].type = "message_delta"

\* C8: once a send of the OpenAI-shape producer has failed because the client
\* is gone, the producer has returned: it reads no further frame and sends
\* no further item.
C8_ProducerReturnsOnSendFailure ==
    (producer = "openai" /\ send_failed) => ppc = "done"

\* whether message_start has reached the client before frame p
StartDeliveredBefore(p) == \E q \in 1..(p - 1) : delivered[q].event = "message_start"

\* C9: for a streaming request, an error that occurs before message_start has
\* been sent to the client is answered with a normal HTTP error body, not
\* inside an SSE stream.
C9_EarlyErrorIsErrorBody ==
    request.stream =>
        /\ api_error # NoError => http.kind = "error"
        /\ \A p \in FramePositions(delivered, "error") :
              ~StartDeliveredBefore(p) => http.kind = "error"

\* the status the frontend is to answer an error with
C9_MappedStatus(e) ==
    CASE e.variant = "MissingApiKey" -> 401
      [] e.variant = "RequestFailed" -> 502
      [] e.variant = "UpstreamError" -> e.status
      [] OTHER -> 500

\* C9 (amended): for a streaming request, a missing key, a connection failure
\* and a non-2xx upstream status are answered with a normal HTTP error body
\* of the mapped status, no producer and no SSE stream; a transport failure on
\* an upstream read, the first one included, reaches the client as an error
\* frame of the SSE response.
C9_Amended ==
    (request.stream /\ http.kind # "none") =>
        /\ get_api_key(config, map_model(request.model, config).provider) = None
              => api_error.variant = "MissingApiKey" /\ ~upstream.issued
        /\ (upstream.issued /\ ~upstream.sent) => api_error.variant = "RequestFailed"
        /\ (upstream.sent /\ ~(upstream.status \in 200..299))
              => api_error.variant = "UpstreamError" /\ api_error.status = upstream.status
        /\ api_error # NoError =>
              /\ http.kind = "error"
              /\ http.status = C9_MappedStatus(api_error)
              /\ producer = "none" /\ rx = "none"
              /\ emitted = << >> /\ delivered = << >>
        /\ FramePositions(delivered, "error") # {} => http.kind = "sse" /\ http.status = 200

C9_Witness ==
    /\ request.stream
    /\ api_error.variant = "UpstreamError"
    /\ http.kind = "error" /\ http.status = 429

\* C10: the model field of the JSON response, and of every message_start
\* that reaches the client, is the model field of the request, whatever the
\* route.
C10_ModelIsRequestModel ==
    /\ http.kind = "json" => body.model = request.model
    /\ \A p \in FramePositions(delivered, "message_start") :
          delivered[p].data.model = request.model

\* C10 (amended): for a request routed to OpenAI or Gemini, streaming or not,
\* the model field of the JSON response and of message_start is the model
\* field of the request; under Anthropic passthrough it is the model field
\* the upstream sent.
C10_Amended ==
    IF map_model(request.model, config).provider # "anthropic"
    THEN C10_ModelIsRequestModel
    ELSE /\ http.kind = "json" => body.model \in UpstreamModels
         /\ \A p \in FramePositions(delivered, "message_start") :
               delivered[p].data.model \in UpstreamModels

C10_Witness ==
    /\ map_model(request.model, config).provider = "gemini"
    /\ map_model(request.model, config).model # request.model
    /\ http.kind = "json"
    /\ body.model = request.model

\* the stop_reason the translators are to give for finish reason r
C11_StopReasonOf(r) ==
    IF r = "length" THEN "max_tokens"
    ELSE IF r = "tool_calls" THEN "tool_use"
    ELSE "end_turn"

\* the non-streaming translator: the stop_reason of the response body
C11_Response ==
    (http.kind = "json" /\ mapped.provider # "anthropic" /\ reply.choices # << >>) =>
        LET r == Head(reply.choices).finish_reason
        IN  r # None => body.stop_reason = C11_StopReasonOf(r)

\* the streaming translator: the read of a chunk with a finish reason hands
\* one message_delta to the channel, with the stop_reason of that reason
C11_StreamStep ==
    \A f \in DispatchFrames :
        (OpenAIReadOf(f, MaxDispatchFrames) /\ f.has_choice /\ f.finish_reason # None) =>
            /\ Cardinality(Positions(pending', "message_delta")) = 1
            /\ \A p \in Positions(pending', "message_delta") :
                  pending'[p].stop_reason = C11_StopReasonOf(f.finish_reason)

\* C11: for every finish reason r, the message_delta of the streaming
\* translator and the body of the non-streaming translator carry stop_reason
\* max_tokens iff r = "length", tool_use iff r = "tool_calls", and end_turn
\* for every other r.
C11_StopReasonMapping == [](C11_Response) /\ [][C11_StreamStep]_vars

C11_Witness ==
    /\ producer = "openai"
    /\ \E p \in Positions(emitted, "message_delta") : emitted[p].stop_reason = "tool_use"
    /\ \E p \in Positions(emitted, "content_block_delta") : emitted[p].kind = "input_json_delta"

\* the upstream produced no text and no tool calls, in any choice
C12_NoOutput(response) ==
    \A i \in DOMAIN response.choices :
        /\ response.choices[i].content \in { None, "" }
        /\ response.choices[i].tool_calls = << >>

\* C12: the body translated from a non-streaming upstream response holds at
\* least one content block, whatever the choices, the text and the tool calls
\* of the response; when the upstream produced no text and no tool calls it
\* holds one block, a text block of length zero.
C12_ContentNeverEmpty ==
    (http.kind = "json" /\ mapped.provider # "anthropic") =>
        /\ Len(body.content) >= 1
        /\ C12_NoOutput(reply) => body.content = << TextBlock("") >>

C12_Witness ==
    /\ http.kind = "json" /\ mapped.provider = "openai"
    /\ Len(reply.choices) = 1 /\ reply.choices[1].content = None
    /\ reply.choices[1].tool_calls = << >>
    /\ body.content = << TextBlock("") >>

\* the configuration holds no key for the provider the request was routed to
C13_NoKeyConfigured ==
    \/ mapped.provider = "openai" /\ config.openai_api_key = None
    \/ mapped.provider = "gemini" /\ config.gemini_api_key = None
    \/ mapped.provider = "anthropic" /\ config.anthropic_api_key = None

\* C13: a request, streaming or not, whose routed provider has no configured
\* API key fails with MissingApiKey(provider); no upstream HTTP request is
\* issued, and no producer task and no channel are created.
C13_MissingKeyFailsBeforeIO ==
    (http.kind # "none" /\ C13_NoKeyConfigured) =>
        /\ api_error = MissingApiKey(mapped.provider)
        /\ http.kind = "error"
        /\ ~upstream.issued
        /\ producer = "none" /\ ppc = "idle"
        /\ rx = "none" /\ chan = << >> /\ emitted = << >> /\ delivered = << >>

C13_Witness ==
    /\ request.stream
    /\ mapped.provider = "gemini" /\ config.gemini_api_key = None
    /\ api_error = MissingApiKey("gemini")
    /\ upstream = NoCall /\ producer = "none"

\* the items the client has received, in order
C14_Received == [i \in DOMAIN delivered |-> delivered[i].data]

\* nothing is dropped, overwritten or reordered: what was sent is what was
\* received followed by what is waiting in the channel
C14_Fifo == rx \in {"open", "ended"} => emitted = C14_Received \o chan

\* with 100 items waiting, the producer stays at its send until the client
\* has received one
C14_SendSuspends ==
    (Len(chan) = ChanCap /\ pending # << >>) =>
        /\ pending' = pending /\ emitted' = emitted /\ ppc' = ppc
        /\ chan' \in { chan, Tail(chan) }

\* C14: within one stream at most 100 items are sent and not yet received;
\* with 100 waiting the producer's send suspends and no item is dropped or
\* overwritten; the client receives the items in the order they were sent.
C14_BoundedFifoChannel ==
    [](Len(chan) <= ChanCap /\ C14_Fifo) /\ [][C14_SendSuspends]_vars

C14_Witness ==
    /\ producer = "openai" /\ ppc = "run"
    /\ Len(chan) = ChanCap /\ pending # << >>
    /\ delivered # << >>

\* the lowercase form of the requested name contains one of the words
C15_Mentions(words) ==
    \E i \in DOMAIN request.model :
        \E w \in words : request.model[i] \in { w.lower, w.other }

C15_Haiku == C15_Mentions({ [lower |-> "haiku", other |-> "Haiku"] })
C15_SonnetOrOpus ==
    C15_Mentions({ [lower |-> "sonnet", other |-> "SONNET"], [lower |-> "opus", other |-> "Opus"] })

\* the provider of a family mapping: gemini iff Google is preferred and the
\* mapped model is a known Gemini model, otherwise openai
C15_FamilyProvider ==
    mapped.provider =
        IF config.preferred_provider = "Google" /\ mapped.model \in GEMINI_MODELS
        THEN "gemini" ELSE "openai"

\* C15: when the preferred provider is not Anthropic, every name whose
\* lowercase form contains haiku is mapped to small_model and every name
\* containing sonnet or opus to big_model, with provider gemini iff Google is
\* preferred and the mapped model is a known Gemini model, otherwise openai.
C15_FamilyRouting ==
    (http.kind # "none" /\ config.preferred_provider # "Anthropic") =>
        /\ C15_Haiku => mapped.model = config.small_model /\ C15_FamilyProvider
        /\ C15_SonnetOrOpus => mapped.model = config.big_model /\ C15_FamilyProvider

\* C15 (amended): the haiku rule is tried first, so a name that contains
\* haiku is mapped to small_model also when it contains sonnet or opus; a
\* name that contains sonnet or opus and not haiku is mapped to big_model.
C15_Amended ==
    (http.kind # "none" /\ config.preferred_provider # "Anthropic") =>
        /\ C15_Haiku => mapped.model = config.small_model /\ C15_FamilyProvider
        /\ (C15_SonnetOrOpus /\ ~C15_Haiku) =>
              mapped.model = config.big_model /\ C15_FamilyProvider

C15_Witness ==
    /\ http.kind # "none" /\ config.preferred_provider = "Google"
    /\ C15_SonnetOrOpus /\ ~C15_Haiku
    /\ config.big_model \in GEMINI_MODELS /\ ~(config.small_model \in GEMINI_MODELS)
    /\ mapped = MappedModel("gemini", config.big_model)

\* the requested name with one leading provider prefix taken off
C16_Unprefixed ==
    IF request.model # << >> /\ Head(request.model) \in RoutingPrefixes
    THEN Tail(request.model) ELSE request.model

\* C16: a provider prefix on the requested model does not influence routing:
\* for a name m that does not itself begin with a provider prefix,
\* map_model(p/m) returns the provider, upstream model and qualified name
\* that map_model(m) returns, for each prefix p.
C16_PrefixDoesNotRoute ==
    (http.kind # "none" /\ C16_Unprefixed # request.model) =>
        LET m == C16_Unprefixed
        IN  ~(m # << >> /\ Head(m) \in RoutingPrefixes) => mapped = map_model(m, config)

C16_Witness ==
    /\ request.model = <<"anthropic/", "claude-3-", "haiku">>
    /\ config = DefaultConfig
    /\ mapped = MappedModel("openai", <<"gpt-4.1-mini">>)
    /\ mapped.full_name = <<"openai/", "gpt-4.1-mini">>

\* C17: when the preferred provider is Anthropic, map_model returns provider
\* anthropic and the prefix-stripped name unchanged for every requested
\* model, family names and known OpenAI and Gemini names included.
C17_AnthropicPassthrough ==
    (http.kind # "none" /\ config.preferred_provider = "Anthropic") =>
        /\ mapped.provider = "anthropic"
        /\ mapped.model = C16_Unprefixed
        /\ mapped.full_name = <<"anthropic/">> \o C16_Unprefixed

C17_Witness ==
    /\ config.preferred_provider = "Anthropic"
    /\ request.model = <<"openai/", "claude-3-", "haiku">>
    /\ mapped = MappedModel("anthropic", <<"claude-3-", "haiku">>)

\* C18: under the default configuration every known OpenAI and Gemini name,
\* with or without a provider prefix, is mapped to itself (the input after
\* prefix stripping), with provider openai for the OpenAI names and gemini
\* for the Gemini names.
C18_KnownNamesRoundTrip ==
    (/\ http.kind # "none"
     /\ config.preferred_provider = "OpenAI"
     /\ config.big_model = <<"gpt-4.1">> /\ config.small_model = <<"gpt-4.1-mini">>) =>
        /\ C16_Unprefixed \in { <<"gemini-2.5-flash">>, <<"gemini-2.5-pro">> } =>
              mapped.provider = "gemini" /\ mapped.model = C16_Unprefixed
        /\ C16_Unprefixed \in OPENAI_MODELS =>
              mapped.provider = "openai" /\ mapped.model = C16_Unprefixed

C18_Witness ==
    /\ config = DefaultConfig
    /\ request.model = <<"openai/", "gemini-2.5-flash">>
    /\ mapped = MappedModel("gemini", <<"gemini-2.5-flash">>)

\* C19: the Gemini schema scrubber is idempotent: scrubbing a scrubbed
\* schema gives the scrubbed schema again, for every schema.
C19_ScrubberIdempotent ==
    (http.kind # "none" /\ mapped.provider = "gemini") =>
        /\ parameters = clean_gemini_schema(input_schema)
        /\ clean_gemini_schema(parameters) = parameters

C19_Witness ==
    /\ mapped.provider = "gemini"
    /\ input_schema.t = "object" /\ "properties" \in DOMAIN input_schema.v
    /\ "additionalProperties" \in DOMAIN input_schema.v["properties"].v["name"].v
    /\ HasStr(input_schema.v["properties"].v["name"].v, "format", "uri")
    /\ parameters # input_schema
    /\ clean_gemini_schema(parameters) = parameters

\* the bytes of the text of a block, text nested under tool_result included
RECURSIVE C20_BlockTextBytes(_)
C20_BlockTextBytes(block) ==
    CASE block.type = "text" -> Sum(block.text)
      [] block.type = "tool_result" ->
            Sum(block.content.text)
            + Sum([i \in DOMAIN block.content.blocks |->
                     C20_BlockTextBytes(block.content.blocks[i])])
      [] OTHER -> 0

\* the bytes of the text of a block, with the text that lies directly in the
\* content of a tool_result block of the message
C20_DirectTextBytes(block) ==
    CASE block.type = "text" -> Sum(block.text)
      [] block.type = "tool_result" ->
            Sum(block.content.text)
            + Sum([i \in DOMAIN block.content.blocks |->
                     IF block.content.blocks[i].type = "text"
                     THEN Sum(block.content.blocks[i].text) ELSE 0])
      [] OTHER -> 0

\* system text, tool names, descriptions and JSON-encoded schemas
C20_OtherBytes ==
    Sum(count_request.system.text)
    + Sum([i \in DOMAIN count_request.system.blocks |-> Sum(count_request.system.blocks[i])])
    + Sum([i \in DOMAIN count_request.tools |->
             Sum(count_request.tools[i].name)
             + Sum([j \in DOMAIN count_request.tools[i].description |->
                      Sum(count_request.tools[i].description[j])])
             + JsonLen(count_request.tools[i].input_schema)])

\* the text of the messages, every block measured by TextBytes
C20_MessageBytes(TextBytes(_)) ==
    Sum([i \in DOMAIN count_request.messages |->
           Sum(count_request.messages[i].text)
           + Sum([j \in DOMAIN count_request.messages[i].blocks |->
                    TextBytes(count_request.messages[i].blocks[j])])])

C20_Estimate(chars) == IF chars \div 4 >= 1 THEN chars \div 4 ELSE 1

\* C20: count_tokens answers input_tokens = max(1, floor(chars / 4)), chars
\* being the bytes of the system text, of every text content block (text
\* nested under tool_result included), of every tool name and description
\* and of every JSON-encoded input_schema; the answer is at least 1.
C20_TokenEstimate ==
    count_response # NoCount =>
        /\ count_response.input_tokens >= 1
        /\ count_response.input_tokens =
              C20_Estimate(C20_OtherBytes + C20_MessageBytes(C20_BlockTextBytes))

\* C20 (amended): of the text nested under tool_result, chars holds the
\* string content of a tool_result block of a message and the text blocks
\* that lie directly in its content; text nested deeper is not counted.
C20_Amended ==
    count_response # NoCount =>
        /\ count_response.input_tokens >= 1
        /\ count_response.input_tokens =
              C20_Estimate(C20_OtherBytes + C20_MessageBytes(C20_DirectTextBytes))

C20_Witness ==
    /\ count_response.input_tokens = 3
    /\ count_request.system = NoContent /\ count_request.tools = << >>
    /\ Len(count_request.messages) = 2
    /\ count_request.messages[2].kind = "blocks"
    /\ count_request.messages[2].blocks[1].type = "tool_result"
    /\ count_request.messages[2].blocks[1].content.kind = "text"

\* the last n items of a sequence
C21_Last(seq, n) == SubSeq(seq, Len(seq) - n + 1, Len(seq))

\* the three events a chunk with a finish_reason is to end with
C21_Closing(index, f) ==
    << ContentBlockStop(index),
       MessageDelta(C11_StopReasonOf(f.finish_reason), IF f.usage = NoIdx THEN 0 ELSE f.usage),
       MessageStop >>

\* the read of a chunk with a finish_reason
C21_FinishStep ==
    \A f \in Frames :
        (OpenAIReadOf(f, MaxFrames) /\ f.has_choice /\ f.finish_reason # None) =>
            /\ Len(pending') >= 3
            /\ C21_Last(pending', 3) = C21_Closing(content_index', f)
            /\ Cardinality(Positions(pending', "message_delta")) = 1
            /\ Cardinality(Positions(pending', "message_stop")) = 1
            /\ term' = "finish"

\* after the chunk the translator only hands over what it has in hand
C21_NothingAfter ==
    term = "finish" =>
        /\ term' = "finish" /\ nread' = nread
        /\ \/ pending' = pending
           \/ pending # << >> /\ pending' = Tail(pending)
        /\ ppc = "done" => (ppc' = "done" /\ emitted' = emitted)

\* C21: a chunk with a finish_reason makes the streaming translator emit
\* content_block_stop(content_index), message_delta with the mapped
\* stop_reason and the chunk's output tokens (0 without usage), message_stop,
\* and terminate, also when no block was ever opened; no later upstream
\* frame, [DONE] included, produces an event.
C21_FinishChunkCloses ==
    /\ []((producer = "openai" /\ term = "finish" /\ ppc = "done") =>
            /\ Len(emitted) >= 3
            /\ C21_Last(emitted, 3)[1].type = "content_block_stop"
            /\ C21_Last(emitted, 3)[2].type = "message_delta"
            /\ C21_Last(emitted, 3)[3].type = "message_stop")
    /\ [][C21_FinishStep /\ C21_NothingAfter]_vars

C21_Witness ==
    /\ producer = "openai" /\ term = "finish" /\ ppc = "done"
    /\ nread < MaxFrames
    /\ emitted = << MessageStart(generate_message_id, model), ContentBlockStop(0),
                    MessageDelta("end_turn", 2), MessageStop >>

\* the slot a tool-call entry addresses
C23_Slot(tc) == IF tc.index = NoIdx THEN 0 ELSE tc.index

\* the block a tool-call entry on a new slot is to open
C23_Opened(index, tc) ==
    ContentBlockStartToolUse(index,
                             IF tc.id # None THEN tc.id ELSE generate_tool_id,
                             IF tc.has_function /\ tc.name # None THEN tc.name ELSE "")

\* C23: whenever a tool-call entry's slot differs from current_tool_index the
\* translator emits a content_block_start of type tool_use at content_index,
\* with name "" when the entry has no name and a generated toolu_ id when it
\* has no id, also for an entry that carries no function object at all.
C23_SlotChangeOpensBlock ==
    [][\A f \in Frames :
          (/\ OpenAIReadOf(f, MaxFrames)
           /\ f.has_choice /\ Len(f.tool_calls) = 1
           /\ current_tool_index # C23_Slot(f.tool_calls[1])) =>
              \E p \in DOMAIN pending' :
                  pending'[p] = C23_Opened(content_index', f.tool_calls[1])]_vars

\* the same for entries that carry a function object
C23_WithFunction ==
    [][\A f \in Frames :
          (/\ OpenAIReadOf(f, MaxFrames)
           /\ f.has_choice /\ Len(f.tool_calls) = 1
           /\ f.tool_calls[1].has_function
           /\ current_tool_index # C23_Slot(f.tool_calls[1])) =>
              \E p \in DOMAIN pending' :
                  pending'[p] = C23_Opened(content_index', f.tool_calls[1])]_vars

\* the first tool-call entry read while a text block is open
C22_FirstEntry(f) ==
    /\ f.has_choice /\ Len(f.tool_calls) = 1
    /\ sent_content_block_start /\ current_tool_index = NoIdx

\* content_block_stop(k) directly followed by content_block_start(k+1, tool_use)
C22_ClosesThenOpens(out, k) ==
    \E p \in DOMAIN out :
        /\ p + 1 \in DOMAIN out
        /\ out[p] = ContentBlockStop(k)
        /\ out[p + 1].type = "content_block_start"
        /\ out[p + 1].kind = "tool_use"
        /\ out[p + 1].index = k + 1

\* a later entry on the open slot yields its arguments and nothing else
C22_SameSlot(f) ==
    (/\ f.has_choice /\ Len(f.tool_calls) = 1
     /\ f.content = None /\ f.finish_reason = None
     /\ sent_message_start
     /\ current_tool_index = C23_Slot(f.tool_calls[1])) =>
        /\ content_index' = content_index
        /\ pending' = IF f.tool_calls[1].arguments \in { None, "" }
                       THEN << >>
                       ELSE << ContentBlockDelta(content_index, "input_json_delta",
                                                 f.tool_calls[1].arguments) >>

\* C22: the first tool-call entry that arrives while a text block is open at
\* index k emits content_block_stop(k) and then content_block_start(k+1,
\* tool_use); later entries for the same slot emit only one input_json_delta
\* at that index per entry with non-empty arguments.
C22_TextToToolTransition ==
    [][\A f \in Frames :
          OpenAIReadOf(f, MaxFrames) =>
              /\ C22_FirstEntry(f) => C22_ClosesThenOpens(pending', content_index)
              /\ C22_SameSlot(f)]_vars

\* the same for entries that carry a function object
C22_WithFunction ==
    [][\A f \in Frames :
          OpenAIReadOf(f, MaxFrames) =>
              /\ (C22_FirstEntry(f) /\ f.tool_calls[1].has_function) =>
                     C22_ClosesThenOpens(pending', content_index)
              /\ C22_SameSlot(f)]_vars

\* the transport error is handed over as one item and the task reads no more
C24_ErrorStep ==
    /\ (term = "none" /\ term' = "error") => pending' = << StreamErrorItem >>
    /\ term = "error" => (term' = "error" /\ nread' = nread)

\* C24: a transport error while reading the upstream body makes the
\* translator emit exactly one StreamError item and terminate, with no
\* message_stop or other event after it; the HTTP layer renders the item as
\* one SSE frame whose event name is error, after which the stream closes.
C24_TransportErrorEndsStream ==
    /\ []((producer = "openai" /\ term = "error") =>
            /\ Positions(emitted \o pending, "error") = { Len(emitted \o pending) }
            /\ (rx = "ended") =>
                   /\ delivered = [p \in DOMAIN emitted |-> SseFrame(emitted[p])]
                   /\ delivered[Len(delivered)].event = "error"
                   /\ \A p \in 1 .. Len(delivered) - 1 : delivered[p].event # "error")
    /\ [][C24_ErrorStep]_vars

C24_Witness ==
    /\ producer = "openai" /\ term = "error" /\ rx = "ended"
    /\ nread < MaxFrames
    /\ Len(delivered) = 4
    /\ delivered[3].event = "content_block_delta"
    /\ delivered[4] = [event |-> "error", data |-> StreamErrorItem]

\* C25: an upstream frame whose data payload does not decode as a stream
\* chunk is ignored: it emits no event, leaves the message-start flag, the
\* text-block flag, the current tool slot, the content index and the message
\* identity unchanged, and the frames after it are processed as if it had
\* not been sent.
C25_UndecodableFrameIgnored ==
    [][OpenAIReadOf(BadFrame, MaxDispatchFrames) =>
          /\ pending' = << >>
          /\ UNCHANGED << machineVars, model, term, ppc, chanVars >>
          /\ \A g \in DispatchFrames :
                 LET st(sms, scbs, cti, ci) ==
                         ProcessFrame([sent_message_start |-> sms,
                                       sent_content_block_start |-> scbs,
                                       current_tool_index |-> cti,
                                       content_index |-> ci,
                                       out |-> << >>, ret |-> "none"],
                                      g, generate_message_id, model)
                 IN  st(sent_message_start', sent_content_block_start',
                        current_tool_index', content_index')
                       = st(sent_message_start, sent_content_block_start,
                            current_tool_index, content_index)]_vars

C25_Witness ==
    /\ producer = "openai" /\ term = "finish" /\ ppc = "done"
    /\ nread = 2
    /\ Len(emitted) = 4
    /\ emitted[1].type = "message_start"
    /\ emitted[2].type = "content_block_stop"

\* the read of [DONE], and the silence after it
C26_DoneStep ==
    /\ OpenAIReadOf(DoneFrame, MaxFrames) =>
           /\ pending' = << MessageStop >>
           /\ term' = "done"
           /\ UNCHANGED machineVars
    /\ term = "done" => (term' = "done" /\ nread' = nread)

\* C26: a data: [DONE] frame that arrives with no finish_reason chunk before
\* it makes the streaming translator emit exactly one message_stop, with no
\* content_block_stop and no message_delta, and terminate; no later frame is
\* processed.
C26_DoneWithoutFinish ==
    /\ []((producer = "openai" /\ term = "done") =>
            /\ Positions(emitted \o pending, "message_stop") = { Len(emitted \o pending) }
            /\ Positions(emitted \o pending, "message_delta") = { })
    /\ [][C26_DoneStep]_vars

C26_Witness ==
    /\ producer = "openai" /\ term = "done" /\ ppc = "done"
    /\ nread < MaxFrames
    /\ Len(emitted) = 4
    /\ emitted[2] = ContentBlockStartText(0)
    /\ emitted[3].type = "content_block_delta"
    /\ emitted[4] = MessageStop

\* what an upstream frame is to contribute to the client's stream
C27_Passed(f) ==
    IF f.kind = "event" THEN << f.event >>
    ELSE IF f.kind = "done" THEN << MessageStop >>
    ELSE << >>

\* everything the task has sent or is about to send, in order
C27_Out == emitted \o pending

\* a read appends the frame's event and nothing else; no other step of the
\* task appends an event, and none reorders what is there
C27_NativeStep ==
    producer = "native" =>
        /\ \A f \in NativeFrames :
               NativeReadOf(f, MaxDispatchFrames) => C27_Out' = C27_Out \o C27_Passed(f)
        /\ nread' = nread =>
               \/ C27_Out' = C27_Out
               \/ term = "none" /\ term' = "error" /\ C27_Out' = C27_Out \o << StreamErrorItem >>
               \/ rx = "dropped" /\ pending # << >> /\ C27_Out' = Append(emitted, Head(pending))

\* C27: in Anthropic native streaming passthrough the events delivered to the
\* client are the decodable upstream frames in upstream order, a data: [DONE]
\* frame being delivered as message_stop; the producer adds no event of its
\* own and reorders none.
C27_NativePassthrough ==
    /\ [](producer = "native" =>
            /\ Len(delivered) <= Len(emitted)
            /\ delivered = [p \in DOMAIN delivered |-> SseFrame(emitted[p])]
            /\ (rx = "ended") => Len(delivered) = Len(emitted)
            /\ \A p \in DOMAIN C27_Out :
                   C27_Out[p].type = "error" => (term = "error" /\ p = Len(C27_Out)))
    /\ [][C27_NativeStep]_vars

C27_Witness ==
    /\ producer = "native" /\ term = "eof" /\ rx = "ended"
    /\ nread = 2
    /\ delivered = << SseFrame(MessageStop) >>

\* status codes an upstream error may carry, representable or not
C28_Codes == { 0, 99, 100, 304, 404, 429, 500, 503, 999, 1000, 65535 }

\* the errors error_response may be handed
C28_Errors ==
    { MissingApiKey(p) : p \in { "openai", "gemini", "anthropic" } }
      \cup { RequestFailed, ParseError, StreamError }
      \cup { UpstreamError(c) : c \in C28_Codes }

\* the status table
C28_Status(e) ==
    IF e.variant = "MissingApiKey" THEN 401
    ELSE IF e.variant = "RequestFailed" THEN 502
    ELSE IF e.variant \in { "ParseError", "StreamError" } THEN 500
    ELSE IF e.status \in 100 .. 999 THEN e.status ELSE 502

\* C28: error_response answers MissingApiKey with 401, RequestFailed with
\* 502, ParseError and StreamError with 500 and UpstreamError with the
\* upstream status code, or 502 when that code is not a representable HTTP
\* status; the body is always an error object of type api_error.
C28_ErrorStatusTable ==
    /\ \A e \in C28_Errors :
           error_response(e) =
               [kind |-> "error", status |-> C28_Status(e), error_type |-> "api_error"]
    /\ http.kind = "error" =>
           /\ api_error \in C28_Errors
           /\ http = [kind |-> "error", status |-> C28_Status(api_error),
                      error_type |-> "api_error"]
    /\ api_error # NoError => http.kind = "error"

C28_Witness ==
    /\ api_error = UpstreamError(429)
    /\ http = [kind |-> "error", status |-> 429, error_type |-> "api_error"]

\* the one message of the request and the blocks of its content
C29_Message == request_messages[1]
C29_Blocks == C29_Message.content.blocks

\* a block-structured message that is not a user message with tool results
C29_Regular ==
    /\ mapped.provider \in { "openai", "gemini" }
    /\ C29_Message.content.kind = "blocks"
    /\ ~(C29_Message.role = "user"
          /\ \E i \in DOMAIN C29_Blocks : C29_Blocks[i].type = "tool_result")

\* the positions of the blocks that yield a content part, and of the tool calls
C29_PartBlocks == { i \in DOMAIN C29_Blocks : C29_Blocks[i].type # "tool_use" }
C29_CallBlocks == { i \in DOMAIN C29_Blocks : C29_Blocks[i].type = "tool_use" }

\* the content of the translated message
C29_Content == openai_messages[1].content

\* one text part is collapsed to the string, other parts are kept as an array
C29_WithParts ==
    (C29_Regular /\ C29_PartBlocks # { }) =>
        /\ Len(openai_messages) = 1
        /\ IF Cardinality(C29_PartBlocks) = 1
              /\ \A i \in C29_PartBlocks : C29_Blocks[i].type \in { "text", "tool_result" }
           THEN /\ C29_Content.kind = "text"
                /\ \A i \in C29_PartBlocks :
                       C29_Blocks[i].type = "text" => C29_Content.text = C29_Blocks[i].text
           ELSE /\ C29_Content.kind = "parts"
                /\ Len(C29_Content.blocks) = Cardinality(C29_PartBlocks)

\* C29: for a block-structured message that is not a user message with
\* tool_result blocks, the translated content is the plain string when the
\* translation yields exactly one part and it is a text part, the parts array
\* when it yields other parts, and the literal "..." only when it yields no
\* part and the message has no tool calls.
C29_ContentShape ==
    /\ C29_WithParts
    /\ (C29_Regular /\ C29_PartBlocks = { }) =>
           (C29_Content = TextContent(<< "..." >>) <=> C29_CallBlocks = { })

\* a user message that holds at least one tool_result block
C30_UserToolResults ==
    /\ mapped.provider \in { "openai", "gemini" }
    /\ C29_Message.role = "user"
    /\ C29_Message.content.kind = "blocks"
    /\ \E i \in DOMAIN C29_Blocks : C29_Blocks[i].type = "tool_result"

\* text blocks as they are, every tool_result as its header line, the result
\* and a newline, in block order
C30_Text ==
    Concat([i \in DOMAIN C29_Blocks |->
               CASE C29_Blocks[i].type = "text" -> C29_Blocks[i].text
                 [] C29_Blocks[i].type = "tool_result" ->
                       << "Tool result for ", C29_Blocks[i].id, ":", "\n" >>
                         \o parse_tool_result_content(C29_Blocks[i].content)
                         \o << "\n" >>
                 [] OTHER -> << >>])

\* one user message with string content and no tool calls
C30_OneUserMessage ==
    C30_UserToolResults =>
        /\ Len(openai_messages) = 1
        /\ openai_messages[1].role = "user"
        /\ openai_messages[1].content.kind = "text"
        /\ openai_messages[1].tool_calls = << >>

\* C30: a user message with at least one tool_result block is translated to
\* exactly one OpenAI message with role user, plain-string content and no
\* tool_calls, in which the text blocks are concatenated as they are, with
\* nothing inserted between or after them, and each tool_result contributes,
\* in block order, "Tool result for <tool_use_id>:", a newline, the result
\* and a newline.
C30_ToolResultText ==
    /\ C30_OneUserMessage
    /\ C30_UserToolResults => openai_messages[1].content.text = C30_Text

\* what the translation yields: a newline after every text block as well,
\* and the whole trimmed
C30_AsTranslated ==
    /\ C30_OneUserMessage
    /\ C30_UserToolResults =>
           openai_messages[1].content.text =
               trim(Concat([i \in DOMAIN C29_Blocks |->
                       CASE C29_Blocks[i].type = "text" -> C29_Blocks[i].text \o << "\n" >>
                         [] C29_Blocks[i].type = "tool_result" ->
                               << "Tool result for ", C29_Blocks[i].id, ":", "\n" >>
                                 \o parse_tool_result_content(C29_Blocks[i].content)
                                 \o << "\n" >>
                         [] OTHER -> << >>]))

\* C31: in request translation a tool's parameters are its input_schema
\* scrubbed by the Gemini scrubber iff the routed provider is gemini, and its
\* input_schema unchanged otherwise; the input_schema held by the incoming
\* request is not modified.
C31_ScrubbedIffGemini ==
    /\ []((mapped.provider \in { "openai", "gemini" } /\ input_schema # NoSchema) =>
            parameters = IF mapped.provider = "gemini"
                         THEN clean_gemini_schema(input_schema)
                         ELSE input_schema)
    /\ [][input_schema' = input_schema]_vars

C31_Witness ==
    /\ mapped.provider = "gemini"
    /\ input_schema.t = "object"
    /\ "default" \in DOMAIN input_schema.v
    /\ parameters # input_schema
    /\ parameters = clean_gemini_schema(input_schema)

\* the keys an object loses: additionalProperties and default always, format
\* when the object's type is "string" and format names a format other than
\* enum and date-time
C32_Removed(fields) ==
    { "additionalProperties", "default" }
      \cup (IF /\ "type" \in DOMAIN fields /\ fields["type"] = JString("string")
               /\ "format" \in DOMAIN fields /\ fields["format"].t = "string"
               /\ fields["format"].v \notin { "enum", "date-time" }
            THEN { "format" } ELSE { })

\* after is before with these keys taken out of every object, inside objects
\* and inside arrays, and with nothing else changed
RECURSIVE C32_Scrubbed(_, _)
C32_Scrubbed(before, after) ==
    CASE before.t = "object" ->
            /\ after.t = "object"
            /\ DOMAIN after.v = DOMAIN before.v \ C32_Removed(before.v)
            /\ \A k \in DOMAIN after.v : C32_Scrubbed(before.v[k], after.v[k])
      [] before.t = "array" ->
            /\ after.t = "array"
            /\ DOMAIN after.v = DOMAIN before.v
            /\ \A i \in DOMAIN after.v : C32_Scrubbed(before.v[i], after.v[i])
      [] OTHER -> after = before

RECURSIVE C40_SameProperties(_, _)
C40_SameProperties(before, after) ==
    CASE before.t = "object" ->
            /\ after.t = "object"
            /\ ("properties" \in DOMAIN before.v /\ before.v["properties"].t = "object") =>
                   /\ "properties" \in DOMAIN after.v
                   /\ after.v["properties"].t = "object"
                   /\ DOMAIN after.v["properties"].v = DOMAIN before.v["properties"].v
            /\ \A k \in DOMAIN after.v \cap DOMAIN before.v :
                   C40_SameProperties(before.v[k], after.v[k])
      [] before.t = "array" ->
            /\ after.t = "array"
            /\ DOMAIN after.v = DOMAIN before.v
            /\ \A i \in DOMAIN after.v : C40_SameProperties(before.v[i], after.v[i])
      [] OTHER -> TRUE

\* C40: the Gemini scrubber removes only schema keywords and never a declared
\* property: the property names listed under each properties object are the
\* same before and after scrubbing, including properties that are themselves
\* named default, additionalProperties or format.
C40_PropertiesKept ==
    (mapped.provider = "gemini" /\ input_schema # NoSchema) =>
        C40_SameProperties(input_schema, parameters)

\* the same for schemas in which no property has the name of a removed keyword
C40_OtherNamesKept ==
    (/\ mapped.provider = "gemini" /\ input_schema # NoSchema
     /\ ~(/\ input_schema.t = "object" /\ "properties" \in DOMAIN input_schema.v
           /\ input_schema.v["properties"].t = "object"
           /\ DOMAIN input_schema.v["properties"].v
                 \cap { "default", "additionalProperties", "format" } # { })) =>
        C40_SameProperties(input_schema, parameters)

\* a translated non-streaming response
C33_Translated == http.kind = "json" /\ mapped.provider # "anthropic"

\* the first choice has text
C33_HasText ==
    /\ reply.choices # << >>
    /\ reply.choices[1].content \notin { None, "" }

\* the tool calls of the first choice
C33_Calls == IF reply.choices = << >> THEN << >> ELSE reply.choices[1].tool_calls

\* the tool_use block of one tool call
C33_ToolUse(tc) ==
    [type |-> "tool_use", text |-> None, id |-> tc.id, name |-> tc.name,
     input |-> IF tc.arguments \in ValidJsonTexts
               THEN [json |-> "value", of |-> tc.arguments]
               ELSE [json |-> "raw", of |-> tc.arguments]]

\* the text block first, if any, then one tool_use block per tool call in order
C33_Blocks(content) ==
    LET n == IF C33_HasText THEN 1 ELSE 0
    IN  /\ Len(content) = n + Len(C33_Calls)
        /\ C33_HasText => content[1] = TextBlock(reply.choices[1].content)
        /\ \A i \in DOMAIN C33_Calls : content[n + i] = C33_ToolUse(C33_Calls[i])

\* C33: the non-streaming response translator builds content from the first
\* choice only: it contains a text block iff that choice's message content is
\* a non-empty string, placed first, followed by exactly one tool_use block
\* per tool_calls entry in upstream order, whose input is the parsed
\* arguments, or {"raw": arguments} when the arguments do not parse as JSON.
C33_FirstChoiceContent ==
    C33_Translated =>
        /\ (\E i \in DOMAIN body.content : body.content[i].type = "text") <=> C33_HasText
        /\ C33_Blocks(body.content)

\* C33 amended: the same, except that a first choice that yields no block at
\* all (no choice, or no non-empty text and no tool calls) is answered with
\* the single zero-length text block.
C33_Amended ==
    C33_Translated =>
        IF ~C33_HasText /\ C33_Calls = << >>
        THEN body.content = << TextBlock("") >>
        ELSE /\ (\E i \in DOMAIN body.content : body.content[i].type = "text") <=> C33_HasText
             /\ C33_Blocks(body.content)

C33_Witness ==
    /\ C33_Translated
    /\ Len(reply.choices) = 1 /\ reply.choices[1].content = None
    /\ body.content = << ToolUseBlock("c", "n", [json |-> "raw", of |-> "oops"]) >>

\* the content_block_start events at index i before position p
C34_StartsBefore(seq, p, i) ==
    { q \in Positions(seq, "content_block_start") : q < p /\ seq[q].index = i }

\* the kind of block a delta belongs to
C34_BlockKind(delta_kind) == IF delta_kind = "text_delta" THEN "text" ELSE "tool_use"

\* C34: the delta type matches the type of the open block it addresses: a
\* text_delta is emitted only at an index whose currently open block is a
\* text block, and an input_json_delta only at an index whose currently open
\* block is a tool_use block, also when text arrives after a tool call has
\* started.
C34_DeltaMatchesBlock ==
    producer = "openai" =>
        \A p \in Positions(emitted, "content_block_delta") :
            LET starts == C34_StartsBefore(emitted, p, emitted[p].index)
            IN  /\ starts # { }
                /\ emitted[MaxOf(starts)].kind = C34_BlockKind(emitted[p].kind)
                /\ ~StoppedBetween(emitted, MaxOf(starts), p, emitted[p].index)

\* C35: no two content_block_start events of one stream carry the same
\* index: each content-block index is opened at most once, for any order of
\* text deltas and tool-call slots in the upstream chunks.
C35_IndexOpenedOnce ==
    producer = "openai" =>
        \A p, q \in Positions(emitted \o pending, "content_block_start") :
            p # q => (emitted \o pending)[p].index # (emitted \o pending)[q].index

\* the events that belong to a started message
C36_MessageEvents ==
    { "content_block_start", "content_block_delta", "content_block_stop", "message_delta" }

\* C36: every content_block_start, content_block_delta, content_block_stop
\* and message_delta event of the streaming translator is preceded by a
\* message_start event, and message_start is emitted at most once per stream.
C36_MessageStartPrecedes ==
    producer = "openai" =>
        LET out == emitted \o pending
        IN  /\ \A p \in DOMAIN out :
                   out[p].type \in C36_MessageEvents =>
                       \E q \in Positions(out, "message_start") : q < p
            /\ Cardinality(Positions(out, "message_start")) <= 1

C36_Witness ==
    /\ producer = "openai" /\ ppc = "done" /\ nread = 3
    /\ Positions(emitted, "message_start") = { 1 }
    /\ \A t \in C36_MessageEvents : Positions(emitted, t) # { }

\* the values of StopReason
C39_StopReasons == { "end_turn", "max_tokens", "stop_sequence", "tool_use" }

\* C39: every non-streaming translated response carries a stop_reason that is
\* one of end_turn, max_tokens, stop_sequence or tool_use, also when the
\* upstream's first choice has no finish_reason or the upstream returned no
\* choices.
C39_StopReasonAlwaysSet ==
    (http.kind = "json" /\ mapped.provider # "anthropic") =>
        body.stop_reason \in C39_StopReasons

\* the same for responses whose first choice has a finish_reason
C39_WithFinishReason ==
    (/\ http.kind = "json" /\ mapped.provider # "anthropic"
     /\ reply.choices # << >> /\ reply.choices[1].finish_reason # None) =>
        body.stop_reason \in C39_StopReasons

\* the producer is at a send and the channel is full
C37_WaitsOnFullChannel == ppc = "run" /\ pending # << >> /\ Len(chan) = ChanCap

\* C37: for every streamed request whose upstream eventually ends (by a
\* finish_reason chunk, [DONE], end of stream or transport error) and whose
\* consumer keeps receiving, the producer task eventually terminates and
\* drops its sender, so the channel closes and the client-visible stream
\* ends; the producer never waits forever on a full channel.  From some
\* point on the task has returned, the response stream has ended and no send
\* is waiting.
C37_ProducerTerminates ==
    <>[](/\ producer # "none" => (ppc = "done" /\ rx = "ended")
         /\ ~C37_WaitsOnFullChannel)

C37_Witness ==
    /\ producer \in { "openai", "native" }
    /\ C37_WaitsOnFullChannel
    /\ rx = "open"

\* the data payloads a body yields when it arrives as one network chunk
C38_Whole == ProcessBuffer(from_utf8_lossy(stream_bytes), << >>).data_lines

C38_Ascii == \A i \in DOMAIN stream_bytes : stream_bytes[i] \notin { "C3", "A9" }

\* C38: the frames handed on, and so the events sent, depend only on the
\* concatenation of the upstream bytes: once the whole body has been read,
\* whatever the network chunks were, the data payloads are those of the body
\* read as one chunk.
C38_ChunkingIndependent ==
    (unread = << >> /\ stream_bytes # << >>) => data_lines = C38_Whole

\* the same for bodies of ASCII bytes, chunk boundaries inside a frame and
\* inside the blank line included
C38_AsciiChunkingIndependent ==
    (unread = << >> /\ C38_Ascii) => (data_lines = C38_Whole /\ buffer = << >>)

====
